---------------------------- MODULE Spec2Model ----------------------------
(***************************************************************************)
(* The HTTP gateway in front of the patient database: request dispatch,    *)
(* the SELECT-only guard, the two database credentials and the lifetime    *)
(* of the per-request connection.                                          *)
(*                                                                         *)
(* The repository holds four versions of the server; `impl` says which one *)
(* is running:                                                             *)
(*   "Router"   the class-based server (Config / DatabaseService /         *)
(*              SqlGuard / ResponseHelper / Router / Server)               *)
(*   "server2"  the function-based server of server2/server.js             *)
(*   "legacy1"  the first script of server.js  (lines 1-102)               *)
(*   "legacy2"  the second script of server.js (lines 104-227)             *)
(*                                                                         *)
(* Text.  A pathname is an ASCII string (the URL parser percent-encodes    *)
(* everything else), kept as a TLA+ string.  A decoded SQL text is a       *)
(* sequence of Unicode code points, so that percent-decoding, trimming and *)
(* case mapping are computed and not assumed.                              *)
(*                                                                         *)
(* The page of server1 (script.js: ApiService, ModalController,            *)
(* AppController) is modelled next to the servers, as a specification of   *)
(* its own (PageSpec); what its fetch comes back with is an input.         *)
(***************************************************************************)
EXTENDS Integers, Sequences, FiniteSets, TLC

VARIABLES
    frozen,     \* the values built at process start: profiles, deny-list, seed rows
    env,        \* process.env: the variables the configuration reads, set or not
    phase,      \* "boot" until the server listens, then "listening"; "exited" at the end
    impl,       \* which of the four servers is running
    allowed,    \* Config.ALLOWED_ORIGIN of this process
    pc,         \* pc[r]: where request r's handler is suspended
    req,        \* req[r]: the inbound request (method, url outcome, pathname, origin)
    hdr,        \* hdr[r]: headers set with res.setHeader before the head is written
    sent,       \* sent[r]: the responses written for r, in order
    escaped,    \* escaped[r]: the exception that left the handler uncaught, or "none"
    guarded,    \* guarded[r]: the text the guard examined and its verdict
    loc,        \* loc[r]: the handler's locals across awaits (kind, sql, pending outcome)
    conns,      \* conns[r]: the connections r opened: credentials and state
    stmts,      \* stmts[r]: the statements r sent to the database, in order
    table,      \* the patient table: Absent, or its rows in insertion order
    gIn,        \* guard harness: the text under test
    gPieces,    \* guard harness: how many pieces gIn was built from
    gOut,       \* guard harness: the verdicts of the guards on gIn
    gDefined,   \* guard harness: FALSE when the guards were called with undefined
    buttons,    \* page: buttons[b].disabled and buttons[b].textContent
    sqlBox,     \* page: the value of the SQL textarea, as code points
    modal,      \* page: the backdrop's 'open' class, its aria-hidden, the content shown
    tasks,      \* page: the click handlers started so far and where each one is
    fetched,    \* page: the requests handed to fetch, in order
    script      \* page: which script of script.js the page runs

svars == <<frozen, env, phase, impl, allowed, pc, req, hdr, sent, escaped, guarded, loc, conns, stmts, table>>
gvars == <<gIn, gPieces, gOut, gDefined>>
cvars == <<buttons, sqlBox, modal, tasks, fetched, script>>
vars == <<frozen, env, phase, impl, allowed, pc, req, hdr, sent, escaped, guarded, loc, conns, stmts, table,
          gIn, gPieces, gOut, gDefined,
          buttons, sqlBox, modal, tasks, fetched, script>>

---------------------------------------------------------------------------
(* Bounds of the model *)

\* requests per behaviour (they may all be in flight at once)
NReq == 2
\* pieces a text under test is concatenated from in the guard harness
MaxPieces == 2
\* requests the page sends in one behaviour
MaxClicks == 2

---------------------------------------------------------------------------
(* Text: code points, ASCII literals *)

AsciiLow == " !\"#$%&'()*+,-./0123456789:;<=>?@ABCDEFGHIJKLMNOPQRSTUVWXYZ[\\]^_"
AsciiHigh == "abcdefghijklmnopqrstuvwxyz{|}~"

\* the code point of a one-character ASCII string (U+0060 cannot be written
\* in a TLA+ string and never occurs in a pathname)
AsciiCode ==
    [c \in {SubSeq(AsciiLow, i, i) : i \in 1..Len(AsciiLow)}
           \cup {SubSeq(AsciiHigh, i, i) : i \in 1..Len(AsciiHigh)} |->
        IF \E i \in 1..Len(AsciiLow) : SubSeq(AsciiLow, i, i) = c
        THEN 31 + (CHOOSE i \in 1..Len(AsciiLow) : SubSeq(AsciiLow, i, i) = c)
        ELSE 96 + (CHOOSE i \in 1..Len(AsciiHigh) : SubSeq(AsciiHigh, i, i) = c)]

Code(c) == AsciiCode[c]

\* a string literal as a sequence of code points
S(s) == [i \in 1..Len(s) |-> Code(SubSeq(s, i, i))]

Drop(s, n) == SubSeq(s, n + 1, Len(s))


---------------------------------------------------------------------------
(* The JavaScript string functions the servers call.  The model's alphabet *)
(* is U+0000..U+00FF plus DOTLESS I, LONG S, KELVIN SIGN and ANGSTROM SIGN *)
(* and what upper-casing makes of these; on it the case mappings below are *)
(* those of ECMAScript (the only mapping that changes the length is the    *)
(* upper-casing of U+00DF).                                                *)

\* String.prototype.trim: WhiteSpace and LineTerminator code points
IsWhiteSpace(c) ==
    \/ c \in {9, 10, 11, 12, 13, 32, 160, 5760, 8232, 8233, 8239, 8287, 12288, 65279}
    \/ c \in 8192..8202

RECURSIVE trimStart(_)
trimStart(s) ==
    IF s # <<>> /\ IsWhiteSpace(Head(s)) THEN trimStart(Tail(s)) ELSE s

RECURSIVE trimEnd(_)
trimEnd(s) ==
    IF s # <<>> /\ IsWhiteSpace(s[Len(s)]) THEN trimEnd(SubSeq(s, 1, Len(s) - 1)) ELSE s

trim(s) == trimEnd(trimStart(s))

LowerCode(c) ==
    IF c \in 65..90 THEN c + 32
    ELSE IF c \in 192..222 /\ c # 215 THEN c + 32
    ELSE IF c = 8490 THEN 107
    ELSE IF c = 8491 THEN 229
    ELSE IF c = 376 THEN 255
    ELSE IF c = 924 THEN 956
    ELSE c

toLowerCase(s) == [i \in 1..Len(s) |-> LowerCode(s[i])]

UpperCodes(c) ==
    IF c \in 97..122 THEN <<c - 32>>
    ELSE IF c \in 224..254 /\ c # 247 THEN <<c - 32>>
    ELSE IF c = 223 THEN <<83, 83>>
    ELSE IF c = 181 THEN <<924>>
    ELSE IF c = 255 THEN <<376>>
    ELSE IF c = 305 THEN <<73>>
    ELSE IF c = 383 THEN <<83>>
    ELSE <<c>>

RECURSIVE toUpperCase(_)
toUpperCase(s) ==
    IF s = <<>> THEN <<>> ELSE UpperCodes(Head(s)) \o toUpperCase(Tail(s))

startsWith(s, prefix) ==
    Len(s) >= Len(prefix) /\ SubSeq(s, 1, Len(prefix)) = prefix

\* String.prototype.includes / indexOf: the first position of `part`, 0 if none
indexOf(s, part) ==
    IF \E i \in 1..(Len(s) - Len(part) + 1) : SubSeq(s, i, i + Len(part) - 1) = part
    THEN CHOOSE i \in 1..(Len(s) - Len(part) + 1) :
            /\ SubSeq(s, i, i + Len(part) - 1) = part
            /\ \A j \in 1..(i - 1) : SubSeq(s, j, j + Len(part) - 1) # part
    ELSE 0

includes(s, part) == indexOf(s, part) # 0

\* pathname.split(sep)[1]: what lies between the first and the second
\* occurrence of sep (to the end when there is no second one)
splitSecond(s, sep) ==
    LET rest == Drop(s, indexOf(s, sep) + Len(sep) - 1)
        nxt == indexOf(rest, sep)
    IN  IF nxt = 0 THEN rest ELSE SubSeq(rest, 1, nxt - 1)

---------------------------------------------------------------------------
(* decodeURIComponent (ECMAScript Decode with an empty reserved set): the  *)
(* result is [ok |-> TRUE, value |-> code points], or [ok |-> FALSE] where *)
(* it throws URIError.                                                     *)

HexValue(c) ==
    IF c \in 48..57 THEN c - 48
    ELSE IF c \in 65..70 THEN c - 55
    ELSE IF c \in 97..102 THEN c - 87
    ELSE -1

\* the byte written as %XX at position k of s, or -1 if there is none
EscapedByte(s, k) ==
    IF k + 2 <= Len(s) /\ s[k] = 37 /\ HexValue(s[k + 1]) >= 0 /\ HexValue(s[k + 2]) >= 0
    THEN 16 * HexValue(s[k + 1]) + HexValue(s[k + 2])
    ELSE -1

\* the length of the UTF-8 sequence a lead byte announces, 0 if it is none
Utf8Length(b) ==
    IF b \in 192..223 THEN 2
    ELSE IF b \in 224..239 THEN 3
    ELSE IF b \in 240..247 THEN 4
    ELSE 0

\* the code point of the n escaped bytes at k, or -1 if they are not the
\* UTF-8 encoding of a code point
Utf8CodePoint(s, k, n) ==
    LET byte(j) == EscapedByte(s, k + 3 * j)
        cont(j) == byte(j) - 128
        v == IF n = 2 THEN (byte(0) - 192) * 64 + cont(1)
             ELSE IF n = 3 THEN (byte(0) - 224) * 4096 + cont(1) * 64 + cont(2)
             ELSE (byte(0) - 240) * 262144 + cont(1) * 4096 + cont(2) * 64 + cont(3)
        least == IF n = 2 THEN 128 ELSE IF n = 3 THEN 2048 ELSE 65536
    IN  IF /\ \A j \in 1..(n - 1) : byte(j) \in 128..191
           /\ v >= least
           /\ v <= 1114111
           /\ v \notin 55296..57343
        THEN v
        ELSE -1

URIError == [ok |-> FALSE, value |-> <<>>]

\* Decode reads s from left to right in units: a plain character, an escape
\* %XX below 0x80, or the n escapes of an n-byte UTF-8 sequence.  An escape
\* never contains '%', so the escapes of s are exactly its '%' positions.

\* position k holds an escape that continues the sequence of an earlier lead byte
Continues(s, k) ==
    /\ EscapedByte(s, k) \in 128..191
    /\ \E j \in 1..3 :
          /\ k - 3 * j >= 1
          /\ Utf8Length(EscapedByte(s, k - 3 * j)) > j
          /\ \A m \in 1..(j - 1) : EscapedByte(s, k - 3 * m) \in 128..191

\* position k is a '%' at which Decode throws URIError: a stray or truncated
\* escape, or bytes that are not the UTF-8 encoding of a code point
BadEscape(s, k) ==
    /\ s[k] = 37
    /\ \/ EscapedByte(s, k) < 0
       \/ /\ EscapedByte(s, k) >= 128
          /\ ~Continues(s, k)
          /\ \/ Utf8Length(EscapedByte(s, k)) = 0
             \/ Utf8CodePoint(s, k, Utf8Length(EscapedByte(s, k))) < 0

\* position k starts a unit of a well-formed s
UnitStart(s, k) ==
    IF s[k] = 37 THEN ~Continues(s, k)
    ELSE /\ ~(k > 1 /\ s[k - 1] = 37)
         /\ ~(k > 2 /\ s[k - 2] = 37)

\* the code point the unit starting at k stands for
UnitValue(s, k) ==
    IF s[k] # 37 THEN s[k]
    ELSE IF EscapedByte(s, k) < 128 THEN EscapedByte(s, k)
    ELSE Utf8CodePoint(s, k, Utf8Length(EscapedByte(s, k)))

\* the code points of the units of s, in order
Decoded(s) ==
    LET starts == {k \in 1..Len(s) : UnitStart(s, k)}
    IN  [i \in 1..Cardinality(starts) |->
            UnitValue(s, CHOOSE k \in starts :
                            Cardinality({j \in starts : j <= k}) = i)]

decodeURIComponent(s) ==
    IF \E k \in 1..Len(s) : BadEscape(s, k) THEN URIError
    ELSE [ok |-> TRUE, value |-> Decoded(s)]

---------------------------------------------------------------------------
(* The guards *)

BLOCKED_SQL_KEYWORDS ==
    << S("insert"), S("update"), S("delete"), S("drop"), S("create"), S("alter"),
       S("truncate"), S("replace"), S("grant"), S("revoke"), S("set "), S("call"),
       S("exec"), S("execute"), S("prepare") >>

select == S("select")

\* isSelectOnly without the trim: leading whitespace defeats the prefix test
isSelectOnlyUntrimmed(sql) ==
    LET normalised == toLowerCase(sql)
    IN  IF ~startsWith(normalised, select) THEN FALSE
        ELSE ~\E i \in 1..Len(BLOCKED_SQL_KEYWORDS) :
                 includes(normalised, BLOCKED_SQL_KEYWORDS[i])

\* a letter, a digit or an underscore
IsWordChar(c) == c \in (97..122) \cup (65..90) \cup (48..57) \cup {95}

\* part occurs in s as a word of its own
includesWord(s, part) ==
    \E i \in 1..(Len(s) - Len(part) + 1) :
        /\ SubSeq(s, i, i + Len(part) - 1) = part
        /\ i = 1 \/ ~IsWordChar(s[i - 1])
        /\ i + Len(part) > Len(s) \/ ~IsWordChar(s[i + Len(part)])

\* isSelectOnly matching the keywords as tokens instead of substrings
isSelectOnlyByToken(sql) ==
    LET normalised == toLowerCase(trim(sql))
    IN  IF ~startsWith(normalised, select) THEN FALSE
        ELSE ~\E i \in 1..Len(BLOCKED_SQL_KEYWORDS) :
                 includesWord(normalised, BLOCKED_SQL_KEYWORDS[i])

\* isSelectOnly without the lower-casing
isSelectOnlyCaseSensitive(sql) ==
    LET normalised == trim(sql)
    IN  IF ~startsWith(normalised, select) THEN FALSE
        ELSE ~\E i \in 1..Len(BLOCKED_SQL_KEYWORDS) :
                 includes(normalised, BLOCKED_SQL_KEYWORDS[i])

\* SqlGuard.isSelectOnly (Router) and isSelectOnly (server2)
isSelectOnly(sql) ==
    LET normalised == toLowerCase(trim(sql))
    IN  IF ~startsWith(normalised, select) THEN FALSE
        ELSE ~\E i \in 1..Len(BLOCKED_SQL_KEYWORDS) :
                 includes(normalised, BLOCKED_SQL_KEYWORDS[i])

forbidden ==
    << S("DROP"), S("DELETE"), S("UPDATE"), S("CREATE"), S("ALTER"), S("TRUNCATE") >>

SELECT == S("SELECT")

\* isQuerySafe of server.js, applied to the still encoded tail; `falsyCheck`
\* is the `if (!sql) return false` that only the second script has.
\* [threw |-> TRUE] where decodeURIComponent throws.
isQuerySafe(sql, falsyCheck) ==
    IF falsyCheck /\ sql = <<>> THEN [threw |-> FALSE, safe |-> FALSE, text |-> <<>>]
    ELSE
        LET d == decodeURIComponent(sql)
            decoded == trim(toUpperCase(d.value))
        IN  IF ~d.ok THEN [threw |-> TRUE, safe |-> FALSE, text |-> <<>>]
            ELSE [threw |-> FALSE,
                  safe |-> /\ startsWith(decoded, SELECT)
                           /\ ~\E i \in 1..Len(forbidden) : includes(decoded, forbidden[i]),
                  text |-> d.value]

---------------------------------------------------------------------------
(* Configuration and fixed data *)

Impls == {"Router", "server2", "legacy1", "legacy2"}

\* the servers that read ALLOWED_ORIGIN, DB_WRITE_* and DB_READ_*
Modern == {"Router", "server2"}

Undefined == "undefined"
NoOrigin == "-"

\* Config.ALLOWED_ORIGIN: the default, or one configured origin
AllowedOrigins == {"*", "https://client.example"}

\* the object config.js exports (the password is the environment's)
dbConfig ==
    [host |-> "mysql.railway.internal", user |-> "root", password |-> "MYSQLPASSWORD",
     database |-> "patient", port |-> 3306]

\* a property read obj.name in JavaScript
Field(obj, name) == IF name \in DOMAIN obj THEN obj[name] ELSE Undefined

\* the credentials _openWriteConnection / getWriteConn / the POST branch of
\* the second script of server.js pass to mysql.createConnection
WriterProfile(i) ==
    IF i \in Modern
    THEN [user |-> "root", password |-> ""]
    ELSE [user |-> Field(dbConfig, "adminUser"), password |-> Field(dbConfig, "adminPass")]

\* the credentials _openReadConnection / getReadConn / the GET branch of the
\* second script of server.js pass to mysql.createConnection
ReaderProfile(i) ==
    IF i \in Modern
    THEN [user |-> "readonly_user", password |-> ""]
    ELSE [user |-> Field(dbConfig, "readerUser"), password |-> Field(dbConfig, "readerPass")]

\* Config.SEED_ROWS; insertPatientsQuery of server.js names the fourth patient differently
SEED_ROWS(i) ==
    << [name |-> "Sara Brown", dateOfBirth |-> "1901-01-01"],
       [name |-> "John Smith", dateOfBirth |-> "1941-01-01"],
       [name |-> "Jack Ma", dateOfBirth |-> "1961-01-30"],
       [name |-> IF i \in Modern THEN "Elon Musk" ELSE "Elon Musk Jr.",
        dateOfBirth |-> "1999-01-01"] >>

SqlPrefix == "/api/v1/sql/"

\* the environment variables the connection profiles are built from: those
\* Config reads, and those config.js reads
ProfileEnv(i) ==
    IF i \in Modern
    THEN {"DB_HOST", "DB_PORT", "DB_NAME", "DB_WRITE_USER", "DB_WRITE_PASS",
          "DB_READ_USER", "DB_READ_PASS"}
    ELSE {"MYSQLHOST", "MYSQLUSER", "MYSQLPASSWORD", "MYSQLDATABASE", "MYSQLPORT"}

\* a variable is absent, or set to some value
Environments(i) == [ProfileEnv(i) -> {Undefined, "configured"}]

\* nothing is set: every field takes its fallback
NoEnvironment(i) == [n \in ProfileEnv(i) |-> Undefined]

\* process.env.NAME || fallback
OrDefault(e, name, fallback) == IF e[name] = Undefined THEN fallback ELSE e[name]

\* the profile fields of Config
Config(e) ==
    [DB_HOST |-> OrDefault(e, "DB_HOST", "maglev.proxy.rlwy.net"),
     DB_PORT |-> OrDefault(e, "DB_PORT", "30731"),
     DB_NAME |-> OrDefault(e, "DB_NAME", "railway"),
     DB_WRITE_USER |-> OrDefault(e, "DB_WRITE_USER", "root"),
     DB_WRITE_PASS |-> OrDefault(e, "DB_WRITE_PASS", ""),
     DB_READ_USER |-> OrDefault(e, "DB_READ_USER", "readonly_user"),
     DB_READ_PASS |-> OrDefault(e, "DB_READ_PASS", "")]

\* the object config.js exports under environment e
ConfigExport(e) ==
    [host |-> OrDefault(e, "MYSQLHOST", "mysql.railway.internal"),
     user |-> OrDefault(e, "MYSQLUSER", "root"),
     password |-> OrDefault(e, "MYSQLPASSWORD", "MYSQLPASSWORD"),
     database |-> OrDefault(e, "MYSQLDATABASE", "patient"),
     port |-> OrDefault(e, "MYSQLPORT", "3306")]

\* the options _openWriteConnection / the POST branch of server.js give to
\* mysql.createConnection
WriteOptions(i, e) ==
    IF i \in Modern
    THEN [host |-> Config(e).DB_HOST, port |-> Config(e).DB_PORT,
          database |-> Config(e).DB_NAME, user |-> Config(e).DB_WRITE_USER,
          password |-> Config(e).DB_WRITE_PASS]
    ELSE [host |-> ConfigExport(e).host,
          port |-> OrDefault([dbPort |-> Field(ConfigExport(e), "dbPort")], "dbPort", "3306"),
          database |-> ConfigExport(e).database,
          user |-> Field(ConfigExport(e), "adminUser"),
          password |-> Field(ConfigExport(e), "adminPass")]

\* the options _openReadConnection / the GET branch of server.js give to
\* mysql.createConnection
ReadOptions(i, e) ==
    IF i \in Modern
    THEN [host |-> Config(e).DB_HOST, port |-> Config(e).DB_PORT,
          database |-> Config(e).DB_NAME, user |-> Config(e).DB_READ_USER,
          password |-> Config(e).DB_READ_PASS]
    ELSE [host |-> ConfigExport(e).host,
          port |-> OrDefault([dbPort |-> Field(ConfigExport(e), "dbPort")], "dbPort", "3306"),
          database |-> ConfigExport(e).database,
          user |-> Field(ConfigExport(e), "readerUser"),
          password |-> Field(ConfigExport(e), "readerPass")]

\* the shared values as they stand once the module has been evaluated: the
\* two credential pairs, Config.BLOCKED_SQL_KEYWORDS and Config.SEED_ROWS
Constructed(i, e) ==
    [writer |-> [user |-> WriteOptions(i, e).user, password |-> WriteOptions(i, e).password],
     reader |-> [user |-> ReadOptions(i, e).user, password |-> ReadOptions(i, e).password],
     blocked |-> BLOCKED_SQL_KEYWORDS,
     seed |-> SEED_ROWS(i)]

---------------------------------------------------------------------------
(* The inbound requests of the model *)

Request(m, p, o) == [method |-> m, urlOk |-> TRUE, pathname |-> p, origin |-> o]

\* the encoded tails of the query requests
Tails ==
    { "SELECT%201",
      "%20Select%20*%20FROM%20patient%09",
      "select%20%2564rop",
      "DELETE%20FROM%20patient",
      "select%20name%20from%20updates",
      "SELECT%201/api/v1/sql/x",
      "",
      "%" }

Requests ==
    { Request("GET", SqlPrefix \o t, NoOrigin) : t \in Tails }
    \cup
    { Request("GET", "/", NoOrigin),
      Request("GET", "/", "https://client.example"),
      Request("GET", "/", "https://other.example"),
      Request("POST", "/insert", NoOrigin),
      Request("GET", "/insert", NoOrigin),
      Request("POST", "/x/insert", NoOrigin),
      Request("POST", SqlPrefix \o "SELECT%201", NoOrigin),
      Request("GET", "/x" \o SqlPrefix \o "SELECT%201", NoOrigin),
      Request("OPTIONS", "/insert", "https://client.example"),
      Request("OPTIONS", "/anything", NoOrigin),
      \* a request target or Host header that new URL() rejects
      [method |-> "GET", urlOk |-> FALSE, pathname |-> "", origin |-> NoOrigin] }

NoRequest == [method |-> "-", urlOk |-> TRUE, pathname |-> "", origin |-> NoOrigin]

Reqs == 1..NReq

---------------------------------------------------------------------------
(* The database engine, as the servers see it *)

\* what err.message says for each failing round trip
ConnectErr == "connect ECONNREFUSED"
DdlErr == "CREATE command denied"
InsertErr == "INSERT command denied"
QueryErr == "You have an error in your SQL syntax"
EndErr == "read ECONNRESET"

\* affectedRows as the engine may report it for the bulk insert
EngineCounts == {4, 5}

\* the rows of the table after the bulk insert of `seed`
Inserted(rows, seed) ==
    rows \o [k \in 1..Len(seed) |->
                [patientid |-> Len(rows) + k, name |-> seed[k].name,
                 dateOfBirth |-> seed[k].dateOfBirth]]

\* the result sets the engine can return for a query text; none means the
\* statement can only fail
SelectOne == S("select 1")
SelectPatients == S("select * from patient")

QueryResults(sql, tbl) ==
    LET n == toLowerCase(trim(sql))
    IN  IF n = SelectOne THEN { << [c1 |-> 1] >> }
        ELSE IF n = SelectPatients /\ tbl.exists THEN { tbl.rows }
        ELSE {}

---------------------------------------------------------------------------
(* Responses *)

NoHeaders == [acao |-> "-", vary |-> "-", methods |-> "-", headers |-> "-"]

\* ResponseHelper.setCorsHeaders / setCors
setCorsHeaders(q, allowedOrigin) ==
    [acao |-> IF allowedOrigin = "*" THEN "*"
              ELSE IF q.origin # NoOrigin /\ q.origin = allowedOrigin THEN q.origin
              ELSE allowedOrigin,
     vary |-> "Origin",
     methods |-> "GET,POST,OPTIONS",
     headers |-> "Content-Type"]

\* the three setHeader calls of the second script of server.js
LegacyCorsHeaders ==
    [acao |-> "*", vary |-> "-", methods |-> "GET, POST, OPTIONS", headers |-> "Content-Type"]

\* the headers the handler sets before anything else
FirstHeaders(i, q, allowedOrigin) ==
    IF i \in Modern THEN setCorsHeaders(q, allowedOrigin)
    ELSE IF i = "legacy2" THEN LegacyCorsHeaders
    ELSE NoHeaders

\* one written response: status line, Content-Type, the shape of the body
\* ("object", "array", "text", "empty") and the body
Response(status, ctype, kind, body, h) ==
    [status |-> status, ctype |-> ctype, kind |-> kind, body |-> body, cors |-> h]

Json(status, obj, h) == Response(status, "application/json", "object", obj, h)
Text(status, ctype, text, h) == Response(status, ctype, "text", text, h)
Empty(status, h) == Response(status, "-", "empty", "", h)

Lit(s) == [t |-> "lit", s |-> s, n |-> 0]
Num(n) == [t |-> "num", s |-> "", n |-> n]

\* a success body that leaves the count out
InsertBodyNoCount(i, count) ==
    [ok |-> TRUE, message |-> << Lit("Inserted "), Num(count), Lit(" rows.") >>]

\* the body of a successful POST /insert
InsertBody(i, count) ==
    IF i = "Router"
    THEN [ok |-> TRUE, message |-> << Lit("Inserted "), Num(count), Lit(" rows.") >>,
          affectedRows |-> count]
    ELSE IF i = "server2"
    THEN [ok |-> TRUE, message |-> << Lit("Inserted "), Num(4), Lit(" rows") >>,
          insertedRows |-> count]
    ELSE [message |-> << Lit("Table checked/created and "), Num(4),
                         Lit(" patients inserted!") >>]

\* the body of an error response
ErrorBody(i, msg) ==
    IF i \in Modern THEN [ok |-> FALSE, error |-> msg] ELSE [error |-> msg]

\* a success response that drops the rows the engine returned
QueryResponseNoRows(i, rows, h) ==
    Json(200, [ok |-> TRUE, rows |-> <<>>], h)

\* the response of a successful query
QueryResponse(i, rows, h) ==
    IF i \in Modern THEN Json(200, [ok |-> TRUE, rows |-> rows], h)
    ELSE Response(200, "application/json", "array", rows, h)

\* the response of a rejected query
RejectResponse(i, h) ==
    IF i = "Router" THEN Json(403, [ok |-> FALSE, error |-> "Only SELECT queries are permitted."], h)
    ELSE IF i = "server2" THEN Json(403, [ok |-> FALSE, error |-> "Only SELECT queries are allowed."], h)
    ELSE Json(403, [error |-> "Permission Denied: Only SELECT allowed."], h)

\* the response of an unmatched route
NotFoundResponse(i, h) ==
    IF i = "Router" THEN Json(404, [ok |-> FALSE, error |-> "Route not found."], h)
    ELSE IF i = "server2" THEN Json(404, [ok |-> FALSE, error |-> "Not found"], h)
    ELSE Text(404, "-", "Not Found", h)

---------------------------------------------------------------------------
(* The handler's locals *)

NoPending == [tag |-> "none", msg |-> "", count |-> 0, rows |-> <<>>]
Throw(msg) == [tag |-> "throw", msg |-> msg, count |-> 0, rows |-> <<>>]
ReturnCount(n) == [tag |-> "count", msg |-> "", count |-> n, rows |-> <<>>]
ReturnRows(rows) == [tag |-> "rows", msg |-> "", count |-> 0, rows |-> rows]

NoLocals == [kind |-> "none", sql |-> <<>>, pending |-> NoPending]
Locals(kind, sql) == [kind |-> kind, sql |-> sql, pending |-> NoPending]

NoGuard == [ran |-> FALSE, text |-> <<>>, verdict |-> FALSE]
Guarded(text, verdict) == [ran |-> TRUE, text |-> text, verdict |-> verdict]

\* what the synchronous start of a handler leaves behind
Suspended(kind, sql, g) ==
    [pc |-> "connect", sent |-> <<>>, escaped |-> "none", guarded |-> g,
     loc |-> Locals(kind, sql)]
Answered(resp, g) ==
    [pc |-> "done", sent |-> <<resp>>, escaped |-> "none", guarded |-> g, loc |-> NoLocals]
Uncaught(err, g) ==
    [pc |-> "done", sent |-> <<>>, escaped |-> err, guarded |-> g, loc |-> NoLocals]
Silent ==
    [pc |-> "done", sent |-> <<>>, escaped |-> "none", guarded |-> NoGuard, loc |-> NoLocals]

---------------------------------------------------------------------------
(* The synchronous start of each handler: from the request to the first    *)
(* await or to the response                                                *)

\* _handleSqlQuery with the early return of the rejection left out: the
\* guard runs, but the query goes on to the database whatever it said
HandleSqlQueryNoReturn(i, q, h) ==
    LET encoded == Drop(q.pathname, Len(SqlPrefix))
        d == decodeURIComponent(S(encoded))
        sql == d.value
    IN  IF ~d.ok THEN Answered(Json(500, ErrorBody(i, "URI malformed"), h), NoGuard)
        ELSE Suspended("query", sql, Guarded(sql, isSelectOnly(sql)))

\* Router._handleSqlQuery up to `await this._db.runSelectQuery(sql)`, and the
\* GET /api/v1/sql/ branch of server2 up to `await getReadConn()`
HandleSqlQuery(i, q, h) ==
    LET encoded == Drop(q.pathname, Len(SqlPrefix))
        d == decodeURIComponent(S(encoded))
        sql == d.value
    IN  IF ~d.ok THEN Answered(Json(500, ErrorBody(i, "URI malformed"), h), NoGuard)
        ELSE IF ~isSelectOnly(sql)
        THEN Answered(RejectResponse(i, h), Guarded(sql, FALSE))
        ELSE Suspended("query", sql, Guarded(sql, TRUE))

\* dispatch without the preflight branch: OPTIONS is routed like any method
ModernDispatchNoPreflight(i, q, h) ==
    IF ~q.urlOk THEN Uncaught("TypeError: Invalid URL", NoGuard)
    ELSE IF q.method = "GET" /\ q.pathname = "/"
    THEN Answered(Text(200, "text/plain", "Server2 is running.", h), NoGuard)
    ELSE IF q.method = "POST" /\ q.pathname = "/insert"
    THEN Suspended("seed", <<>>, NoGuard)
    ELSE IF q.method = "GET" /\ startsWith(q.pathname, SqlPrefix)
    THEN HandleSqlQuery(i, q, h)
    ELSE Answered(NotFoundResponse(i, h), NoGuard)

\* Router.dispatch, and the request listener of server2, after the headers are set
ModernDispatch(i, q, h) ==
    IF q.method = "OPTIONS" THEN Answered(Empty(204, h), NoGuard)
    ELSE IF ~q.urlOk THEN Uncaught("TypeError: Invalid URL", NoGuard)
    ELSE IF q.method = "GET" /\ q.pathname = "/"
    THEN Answered(Text(200, "text/plain",
                       IF i = "Router" THEN "Server2 is running." ELSE "Server2 is running",
                       h), NoGuard)
    ELSE IF q.method = "POST" /\ q.pathname = "/insert"
    THEN Suspended("seed", <<>>, NoGuard)
    ELSE IF q.method = "GET" /\ startsWith(q.pathname, SqlPrefix)
    THEN HandleSqlQuery(i, q, h)
    ELSE Answered(NotFoundResponse(i, h), NoGuard)

\* the GET branch of the two scripts of server.js up to
\* `await mysql.createConnection(...)`; the second script decodes the tail
\* again for the text it will execute, the first script keeps no such text
LegacyQuery(i, q, h) ==
    LET rawQuery == splitSecond(q.pathname, SqlPrefix)
        g == isQuerySafe(S(rawQuery), i = "legacy2")
    IN  IF g.threw THEN Uncaught("URIError: URI malformed", NoGuard)
        ELSE IF ~g.safe THEN Answered(RejectResponse(i, h), Guarded(g.text, FALSE))
        ELSE IF i = "legacy1" THEN Suspended("query", <<>>, Guarded(g.text, TRUE))
        ELSE Suspended("query", decodeURIComponent(S(rawQuery)).value, Guarded(g.text, TRUE))

\* the request listener of the first script of server.js
Legacy1Handler(q, h) ==
    IF ~q.urlOk THEN Uncaught("TypeError: Invalid URL", NoGuard)
    ELSE IF q.method = "GET" /\ includes(q.pathname, SqlPrefix)
    THEN LegacyQuery("legacy1", q, h)
    ELSE Silent

\* the request listener of the second script of server.js
Legacy2Handler(q, h) ==
    IF q.method = "OPTIONS" THEN Answered(Empty(204, h), NoGuard)
    ELSE IF ~q.urlOk THEN Uncaught("TypeError: Invalid URL", NoGuard)
    ELSE IF q.method = "POST" /\ includes(q.pathname, "/insert")
    THEN Suspended("seed", <<>>, NoGuard)
    ELSE IF q.method = "GET" /\ includes(q.pathname, SqlPrefix)
    THEN LegacyQuery("legacy2", q, h)
    ELSE Answered(NotFoundResponse("legacy2", h), NoGuard)

Handler(i, q, h) ==
    IF i \in Modern THEN ModernDispatch(i, q, h)
    ELSE IF i = "legacy1" THEN Legacy1Handler(q, h)
    ELSE Legacy2Handler(q, h)

\* The first script of server.js passes `dbConfig` to createConnection but
\* declares only `config`; the name is declared further down the same file,
\* by the second script.  Read alone the script throws ReferenceError inside
\* its try block, read as part of the file the name resolves: both outcomes
\* are kept.
Starts(i, q, h) ==
    {Handler(i, q, h)}
    \cup {Answered(Json(500, ErrorBody(i, "dbConfig is not defined"), h), out.guarded) :
             out \in {o \in {Handler(i, q, h)} : i = "legacy1" /\ o.pc = "connect"}}

\* the start of every handler on every request of the model, computed once
Started ==
    [i \in Impls, a \in AllowedOrigins, q \in Requests |->
        Starts(i, q, FirstHeaders(i, q, a))]

---------------------------------------------------------------------------
(* The guard harness: texts put together from pieces, and the guards'      *)
(* verdicts on them                                                        *)

Pieces ==
    { S(" "), <<9>>, <<160>>, S("select"), S("SELECT"), S("Select "), S("s"), S("elect"),
      S("SELECT * FROM patient"), S("select * from patient"), S("select 1"), S("selection"), S(" x"),
      S("; drop table patient"), S(" name from updates"), S("DROP"),
      S("insert"), S("update"), S("delete"), S("drop"), S("create"), S("alter"),
      S("truncate"), S("replace"), S("grant"), S("revoke"), S("set "), S("set"),
      S("call"), S("exec"), S("execute"), S("prepare"),
      <<82, 69, 86, 79, 8490, 69>>,
      \* LONG S before "elect 1", and DOTLESS I before "nsert"
      <<383, 101, 108, 101, 99, 116, 32, 49>>,
      <<32, 305, 110, 115, 101, 114, 116>> }

GuardVerdicts(text) ==
    [selectOnly |-> isSelectOnly(text), querySafe |-> isQuerySafe(text, TRUE).safe,
     threw |-> FALSE]

\* the guards called with undefined: SqlGuard.isSelectOnly evaluates
\* sql.trim() and throws TypeError; isQuerySafe returns false at `!sql`
UndefinedVerdicts ==
    [selectOnly |-> FALSE, querySafe |-> FALSE, threw |-> TRUE]

---------------------------------------------------------------------------
(* The page of server1 (script.js): what it starts from, what the user can *)
(* type and what fetch can come back with                                  *)

\* the strings of LANG_EN the controllers use (the loading labels end in
\* U+2026, written here as three dots)
LANG_EN ==
    [insertBtn_label |-> "Insert",
     insertBtn_loading |-> "Loading...",
     submitBtn_label |-> "Submit Query",
     submitBtn_loading |-> "Loading...",
     error_emptyQuery |-> "Please enter a SQL SELECT statement before submitting.",
     error_insertFailed |-> "Insert failed:",
     error_queryFailed |-> "Query failed:"]

\* CONFIG of script.js
CONFIG ==
    [API_BASE |-> "https://api-db-c97g.onrender.com",
     ENDPOINT_INSERT |-> "/insert",
     ENDPOINT_SQL |-> "/api/v1/sql/"]

\* button.dataset.label / button.dataset.loadingLabel as init() stores them
Dataset ==
    [insertBtn |-> [label |-> LANG_EN.insertBtn_label,
                    loadingLabel |-> LANG_EN.insertBtn_loading],
     submitBtn |-> [label |-> LANG_EN.submitBtn_label,
                    loadingLabel |-> LANG_EN.submitBtn_loading]]

\* AppController._setLoading: the button's state after the call
setLoading(button, isLoading) ==
    [disabled |-> isLoading,
     textContent |-> IF isLoading THEN Dataset[button].loadingLabel
                     ELSE Dataset[button].label]

\* encodeURIComponent on code points below U+D800: unreserved characters
\* stay, every other one becomes the %XX of its UTF-8 bytes
HexDigit(n) == IF n < 10 THEN 48 + n ELSE 55 + n
PercentByte(b) == <<37, HexDigit(b \div 16), HexDigit(b % 16)>>
IsUnreserved(c) ==
    c \in (65..90) \cup (97..122) \cup (48..57) \cup {45, 95, 46, 33, 126, 42, 39, 40, 41}
EncodeCode(c) ==
    IF IsUnreserved(c) THEN <<c>>
    ELSE IF c < 128 THEN PercentByte(c)
    ELSE IF c < 2048 THEN PercentByte(192 + (c \div 64)) \o PercentByte(128 + (c % 64))
    ELSE PercentByte(224 + (c \div 4096)) \o PercentByte(128 + ((c \div 64) % 64))
             \o PercentByte(128 + (c % 64))

RECURSIVE encodeURIComponent(_)
encodeURIComponent(s) ==
    IF s = <<>> THEN <<>> ELSE EncodeCode(Head(s)) \o encodeURIComponent(Tail(s))

\* what the user may have in the SQL box
SqlBoxTexts ==
    { <<>>, <<32, 9, 10>>, S(" SELECT 1 ") }

\* what fetch resolves with: the status, whether the body parses as JSON
\* and, if it does, the parsed value
FetchReplies ==
    { [status |-> 200, json |-> TRUE, data |-> [ok |-> TRUE, rows |-> "rows"]],
      [status |-> 403, json |-> TRUE,
       data |-> [ok |-> FALSE, error |-> "Only SELECT queries are permitted."]],
      [status |-> 500, json |-> TRUE, data |-> [ok |-> FALSE, error |-> "connect ECONNREFUSED"]],
      [status |-> 500, json |-> TRUE, data |-> [message |-> "no error field"]],
      [status |-> 404, json |-> FALSE, data |-> [text |-> "Not Found"]] }

NoReplyYet == [status |-> 0, json |-> FALSE, data |-> [text |-> ""]]

\* what a handler passes to ModalController.open
ShowData(data) == [kind |-> "data", heading |-> "", body |-> data]
ShowFailure(heading, message) ==
    [kind |-> "failure", heading |-> heading, body |-> [message |-> message]]
ShowText(text) == [kind |-> "text", heading |-> "", body |-> [message |-> text]]
Nothing == [kind |-> "none", heading |-> "", body |-> [message |-> ""]]

\* the messages of the errors the handlers can catch
FetchErr == "Failed to fetch"
JsonErr == "Unexpected token in JSON"

\* _parseResponse: data?.error ?? `HTTP ${response.status}`
ErrorMessage(reply) ==
    IF Field(reply.data, "error") # Undefined THEN reply.data.error
    ELSE "HTTP " \o ToString(reply.status)

\* script.js holds two scripts: the first one (lines 1-58, functions
\* openModal / closeModal and three listeners) and the class-based one
Scripts == {"AppController", "first"}

\* the page once the script has run: both buttons enabled with their
\* labels, the modal closed as the markup has it, nothing typed, nothing sent
PageLoaded ==
    /\ buttons = [b \in {"insertBtn", "submitBtn"} |-> setLoading(b, FALSE)]
    /\ sqlBox = <<>>
    /\ modal = [open |-> FALSE, ariaHidden |-> "true", content |-> Nothing]
    /\ tasks = <<>>
    /\ fetched = <<>>

---------------------------------------------------------------------------
(* Initial state *)

\* the state after construction, the page running script s
Start(s) ==
    /\ impl \in Impls
    /\ env = NoEnvironment(impl)
    /\ frozen = Constructed(impl, env)
    /\ phase = "listening"
    /\ allowed \in AllowedOrigins
    /\ impl \notin Modern => allowed = "*"
    /\ pc = [r \in Reqs |-> "new"]
    /\ req = [r \in Reqs |-> NoRequest]
    /\ hdr = [r \in Reqs |-> NoHeaders]
    /\ sent = [r \in Reqs |-> <<>>]
    /\ escaped = [r \in Reqs |-> "none"]
    /\ guarded = [r \in Reqs |-> NoGuard]
    /\ loc = [r \in Reqs |-> NoLocals]
    /\ conns = [r \in Reqs |-> <<>>]
    /\ stmts = [r \in Reqs |-> <<>>]
    /\ table = [exists |-> FALSE, rows |-> <<>>]
    /\ gIn = <<>>
    /\ gPieces = 0
    /\ gOut = GuardVerdicts(<<>>)
    /\ gDefined = TRUE
    /\ PageLoaded
    /\ script = s

Init == Start("AppController")

---------------------------------------------------------------------------
(* Writing a response *)

\* res.writeHead + res.end: a second head throws ERR_HTTP_HEADERS_SENT
Reply(r, resp) ==
    IF sent[r] = <<>>
    THEN /\ sent' = [sent EXCEPT ![r] = <<resp>>]
         /\ escaped' = escaped
    ELSE /\ sent' = sent
         /\ escaped' = [escaped EXCEPT ![r] = "ERR_HTTP_HEADERS_SENT"]

NoReply == sent' = sent /\ escaped' = escaped

\* the catch block of each server
CatchReply(r, msg) == Reply(r, Json(500, ErrorBody(impl, msg), hdr[r]))

\* the last statement r sent gets the engine's reply
Replied(r, reply) ==
    stmts' = [stmts EXCEPT ![r][Len(stmts[r])].reply = reply]

Statement(r, kind, text) ==
    [kind |-> kind, text |-> text, user |-> conns[r][Len(conns[r])].user,
     reply |-> NoPending]

\* conn.end() was called and has settled: the handle is released whatever
\* end() reports ("ok" or "error")
Released(r, report) ==
    conns' = [conns EXCEPT ![r][Len(conns[r])] = [@ EXCEPT !.state = "closed",
                                                          !.end = report]]

---------------------------------------------------------------------------
(* Actions *)

\* a request arrives and its handler runs to its first await or to its end
Dispatch(r, q) ==
    /\ phase = "listening"
    /\ pc[r] = "new"
    /\ r > 1 => pc[r - 1] # "new"
    /\ \E out \in Started[impl, allowed, q] :
           /\ req' = [req EXCEPT ![r] = q]
           /\ hdr' = [hdr EXCEPT ![r] = FirstHeaders(impl, q, allowed)]
           /\ pc' = [pc EXCEPT ![r] = out.pc]
           /\ sent' = [sent EXCEPT ![r] = out.sent]
           /\ escaped' = [escaped EXCEPT ![r] = out.escaped]
           /\ guarded' = [guarded EXCEPT ![r] = out.guarded]
           /\ loc' = [loc EXCEPT ![r] = out.loc]
    /\ UNCHANGED <<frozen, env, phase, impl, allowed, conns, stmts, table, gvars, cvars>>

\* the credentials the awaited createConnection was called with
ProfileFor(i, kind) ==
    IF i = "legacy1" THEN [user |-> dbConfig.user, password |-> dbConfig.password]
    ELSE IF kind = "seed" THEN frozen.writer
    ELSE frozen.reader

\* a connection just opened
Opened(p) == [user |-> p.user, password |-> p.password, state |-> "open", end |-> "-"]

\* mysql.createConnection resolves; the handler sends its first statement.
\* The first script of server.js names an undeclared sqlQuery instead: the
\* ReferenceError reaches its catch block, which answers and ends the
\* handler; connection.end() is skipped.
ConnectOk(r) ==
    /\ pc[r] = "connect"
    /\ LET p == ProfileFor(impl, loc[r].kind)
           first == IF loc[r].kind = "seed" THEN "ddl" ELSE "query"
       IN  /\ conns' = [conns EXCEPT ![r] = Append(@, Opened(p))]
           /\ IF impl = "legacy1"
              THEN /\ stmts' = stmts
                   /\ sent' = [sent EXCEPT ![r] =
                                 <<Json(500, ErrorBody(impl, "sqlQuery is not defined"),
                                        hdr[r])>>]
                   /\ pc' = [pc EXCEPT ![r] = "done"]
              ELSE /\ stmts' = [stmts EXCEPT ![r] =
                                  Append(@, [kind |-> first, text |-> loc[r].sql,
                                             user |-> p.user, reply |-> NoPending])]
                   /\ sent' = sent
                   /\ pc' = [pc EXCEPT ![r] = first]
    /\ UNCHANGED <<frozen, env, phase, impl, allowed, req, hdr, escaped, guarded, loc, table, gvars, cvars>>

\* mysql.createConnection rejects: no connection exists, the catch block answers
ConnectFail(r) ==
    /\ pc[r] = "connect"
    /\ CatchReply(r, ConnectErr)
    /\ pc' = [pc EXCEPT ![r] = "done"]
    /\ UNCHANGED <<frozen, env, phase, impl, allowed, req, hdr, guarded, loc, conns, stmts, table, gvars, cvars>>

\* a statement failed.  Router and server2: the exception is pending while
\* the finally block awaits conn.end().  The second script of server.js: its
\* catch block answers at once, then finally awaits connection.end().
StatementFailed(r, msg) ==
    /\ Replied(r, Throw(msg))
    /\ IF impl \in Modern
       THEN /\ loc' = [loc EXCEPT ![r].pending = Throw(msg)]
            /\ NoReply
       ELSE /\ loc' = loc
            /\ CatchReply(r, msg)
    /\ pc' = [pc EXCEPT ![r] = "end"]
    /\ UNCHANGED <<frozen, env, phase, impl, allowed, req, hdr, guarded, conns, table, gvars, cvars>>

\* the schema step as DROP + CREATE: it empties the table
DdlOkRecreate(r) ==
    /\ pc[r] = "ddl"
    /\ table' = [exists |-> TRUE, rows |-> <<>>]
    /\ stmts' = [stmts EXCEPT ![r] =
                    Append([@ EXCEPT ![Len(@)].reply = ReturnCount(0)],
                           Statement(r, "insert", <<>>))]
    /\ pc' = [pc EXCEPT ![r] = "insert"]
    /\ UNCHANGED <<frozen, env, phase, impl, allowed, req, hdr, sent, escaped, guarded, loc, conns, gvars, cvars>>

\* CREATE TABLE IF NOT EXISTS succeeds; the handler sends the bulk insert
DdlOk(r) ==
    /\ pc[r] = "ddl"
    /\ table' = [table EXCEPT !.exists = TRUE]
    /\ stmts' = [stmts EXCEPT ![r] =
                    Append([@ EXCEPT ![Len(@)].reply = ReturnCount(0)],
                           Statement(r, "insert", <<>>))]
    /\ pc' = [pc EXCEPT ![r] = "insert"]
    /\ UNCHANGED <<frozen, env, phase, impl, allowed, req, hdr, sent, escaped, guarded, loc, conns, gvars, cvars>>

\* a failed schema step that is swallowed: the insert is sent all the same
DdlFailGoesOn(r) ==
    /\ pc[r] = "ddl"
    /\ stmts' = [stmts EXCEPT ![r] =
                    Append([@ EXCEPT ![Len(@)].reply = Throw(DdlErr)],
                           Statement(r, "insert", <<>>))]
    /\ pc' = [pc EXCEPT ![r] = "insert"]
    /\ UNCHANGED <<frozen, env, phase, impl, allowed, req, hdr, sent, escaped, guarded,
                   loc, conns, table, gvars, cvars>>

\* CREATE TABLE IF NOT EXISTS fails
DdlFail(r) ==
    /\ pc[r] = "ddl"
    /\ StatementFailed(r, DdlErr)

\* an insert that takes the rows out of the shared sequence as it sends them
InsertOkShifting(r, n) ==
    /\ pc[r] = "insert"
    /\ table.exists
    /\ frozen' = [frozen EXCEPT !.seed = <<>>]
    /\ table' = [table EXCEPT !.rows = Inserted(@, frozen.seed)]
    /\ Replied(r, ReturnCount(n))
    /\ loc' = [loc EXCEPT ![r].pending = ReturnCount(n)]
    /\ IF impl = "Router" THEN NoReply
       ELSE Reply(r, Json(200, InsertBody(impl, n), hdr[r]))
    /\ pc' = [pc EXCEPT ![r] = "end"]
    /\ UNCHANGED <<env, phase, impl, allowed, req, hdr, guarded, conns, gvars, cvars>>

\* the bulk insert succeeds and the engine reports n affected rows.  Router
\* returns the count through finally; server2 and the second script of
\* server.js answer before finally runs.
InsertOk(r, n) ==
    /\ pc[r] = "insert"
    /\ table.exists
    /\ table' = [table EXCEPT !.rows = Inserted(@, frozen.seed)]
    /\ Replied(r, ReturnCount(n))
    /\ loc' = [loc EXCEPT ![r].pending = ReturnCount(n)]
    /\ IF impl = "Router" THEN NoReply
       ELSE Reply(r, Json(200, InsertBody(impl, n), hdr[r]))
    /\ pc' = [pc EXCEPT ![r] = "end"]
    /\ UNCHANGED <<frozen, env, phase, impl, allowed, req, hdr, guarded, conns, gvars, cvars>>

\* a failing insert that is issued a second time before giving up
InsertFailRetry(r) ==
    /\ pc[r] = "insert"
    /\ IF Len(stmts[r]) < 3
       THEN /\ stmts' = [stmts EXCEPT ![r] =
                           Append([@ EXCEPT ![Len(@)].reply = Throw(InsertErr)],
                                  Statement(r, "insert", <<>>))]
            /\ UNCHANGED <<frozen, env, phase, impl, allowed, pc, req, hdr, sent, escaped,
                           guarded, loc, conns, table, gvars, cvars>>
       ELSE StatementFailed(r, InsertErr)

InsertFail(r) ==
    /\ pc[r] = "insert"
    /\ StatementFailed(r, InsertErr)

\* the query succeeds with the engine's rows
QueryOk(r, rows) ==
    /\ pc[r] = "query"
    /\ Replied(r, ReturnRows(rows))
    /\ loc' = [loc EXCEPT ![r].pending = ReturnRows(rows)]
    /\ IF impl = "Router" THEN NoReply
       ELSE Reply(r, QueryResponse(impl, rows, hdr[r]))
    /\ pc' = [pc EXCEPT ![r] = "end"]
    /\ UNCHANGED <<frozen, env, phase, impl, allowed, req, hdr, guarded, conns, table, gvars, cvars>>

QueryFail(r) ==
    /\ pc[r] = "query"
    /\ StatementFailed(r, QueryErr)

\* what Router does once insertSeedRows / runSelectQuery has settled
RouterSettled(r, outcome) ==
    IF outcome.tag = "throw" THEN CatchReply(r, outcome.msg)
    ELSE IF outcome.tag = "count"
    THEN Reply(r, Json(200, InsertBody("Router", outcome.count), hdr[r]))
    ELSE Reply(r, QueryResponse("Router", outcome.rows, hdr[r]))

\* conn.end() resolves
EndOk(r) ==
    /\ pc[r] = "end"
    /\ Released(r, "ok")
    /\ IF impl = "Router" THEN RouterSettled(r, loc[r].pending)
       ELSE IF impl = "server2" /\ loc[r].pending.tag = "throw"
       THEN CatchReply(r, loc[r].pending.msg)
       ELSE NoReply
    /\ pc' = [pc EXCEPT ![r] = "done"]
    /\ UNCHANGED <<frozen, env, phase, impl, allowed, req, hdr, guarded, loc, stmts, table, gvars, cvars>>

\* conn.end() rejects: the exception replaces whatever was pending.  Router
\* and server2 reach their catch block; in the second script of server.js
\* the exception leaves the listener.
EndFail(r) ==
    /\ pc[r] = "end"
    /\ Released(r, "error")
    /\ IF impl \in Modern THEN CatchReply(r, EndErr)
       ELSE /\ sent' = sent
            /\ escaped' = [escaped EXCEPT ![r] = EndErr]
    /\ pc' = [pc EXCEPT ![r] = "done"]
    /\ UNCHANGED <<frozen, env, phase, impl, allowed, req, hdr, guarded, loc, stmts, table, gvars, cvars>>

\* http.createServer's listener drops the promise the handler returns, so a
\* rejection that left a handler is handled by nobody. What the runtime does
\* with an unhandled rejection is its own choice: it only warns (this action
\* is not taken), or it raises it as an uncaught exception and the process
\* exits, and then the requests still suspended are never answered.
Exit ==
    /\ phase = "listening"
    /\ \E r \in Reqs : escaped[r] # "none"
    /\ phase' = "exited"
    /\ pc' = [r \in Reqs |-> IF pc[r] \in {"new", "done"} THEN pc[r] ELSE "killed"]
    /\ UNCHANGED <<frozen, env, impl, allowed, req, hdr, sent, escaped, guarded, loc,
                   conns, stmts, table, gvars, cvars>>

ServerNext ==
    \/ Exit
    \/ \E r \in Reqs :
        \/ \E q \in Requests : Dispatch(r, q)
        \/ ConnectOk(r)
        \/ ConnectFail(r)
        \/ DdlOk(r)
        \/ DdlFail(r)
        \/ \E n \in EngineCounts : InsertOk(r, n)
        \/ InsertFail(r)
        \/ \E rows \in QueryResults(loc[r].sql, table) : QueryOk(r, rows)
        \/ QueryFail(r)
        \/ EndOk(r)
        \/ EndFail(r)

Next == ServerNext

Spec == Init /\ [][Next]_vars

---------------------------------------------------------------------------
(* The guard harness as a specification of its own *)

GuardInit ==
    /\ Init
    /\ impl = "Router"
    /\ allowed = "*"

\* one more piece is appended to the text and the guards are applied to it
GuardStep(piece) ==
    /\ gDefined
    /\ gPieces < MaxPieces
    /\ gIn' = gIn \o piece
    /\ gPieces' = gPieces + 1
    /\ gOut' = GuardVerdicts(gIn')
    /\ UNCHANGED <<svars, cvars, gDefined>>

\* the guards are called with undefined instead of a text
GuardUndefined ==
    /\ gDefined
    /\ gPieces = 0
    /\ gDefined' = FALSE
    /\ gOut' = UndefinedVerdicts
    /\ UNCHANGED <<svars, cvars, gIn, gPieces>>

GuardNext ==
    \/ \E piece \in Pieces : GuardStep(piece)
    \/ GuardUndefined

GuardSpec == GuardInit /\ [][GuardNext]_vars

---------------------------------------------------------------------------
(* Startup as a specification of its own: the process is started under    *)
(* an environment, builds its configuration and listens                   *)

ConfigInit ==
    /\ impl \in Impls
    /\ env \in Environments(impl)
    /\ frozen = Constructed(impl, env)
    /\ phase = "boot"
    /\ allowed \in AllowedOrigins
    /\ impl \notin Modern => allowed = "*"
    /\ pc = [r \in Reqs |-> "new"]
    /\ req = [r \in Reqs |-> NoRequest]
    /\ hdr = [r \in Reqs |-> NoHeaders]
    /\ sent = [r \in Reqs |-> <<>>]
    /\ escaped = [r \in Reqs |-> "none"]
    /\ guarded = [r \in Reqs |-> NoGuard]
    /\ loc = [r \in Reqs |-> NoLocals]
    /\ conns = [r \in Reqs |-> <<>>]
    /\ stmts = [r \in Reqs |-> <<>>]
    /\ table = [exists |-> FALSE, rows |-> <<>>]
    /\ gIn = <<>>
    /\ gPieces = 0
    /\ gOut = GuardVerdicts(<<>>)
    /\ gDefined = TRUE
    /\ PageLoaded
    /\ script = "AppController"

\* new Server() and app.start(): the configuration is read, with a
\* fallback for whatever is not set, and the server listens
Boot ==
    /\ phase = "boot"
    /\ phase' = "listening"
    /\ UNCHANGED <<frozen, env, impl, allowed, pc, req, hdr, sent, escaped, guarded, loc,
                   conns, stmts, table, gvars, cvars>>

ConfigNext == Boot

ConfigSpec == ConfigInit /\ [][ConfigNext]_vars

---------------------------------------------------------------------------
(* The page as a specification of its own: clicks, typing, the outcomes of *)
(* fetch and of response.json(), and the triggers that close the modal     *)

\* ModalController.open and openModal
open(content) == modal' = [open |-> TRUE, ariaHidden |-> "false", content |-> content]

\* a close that takes the class away and leaves aria-hidden as it is
closeClassOnly == modal' = [modal EXCEPT !.open = FALSE]

\* ModalController.close and closeModal
close == modal' = [modal EXCEPT !.open = FALSE, !.ariaHidden = "true"]

\* a handler that has called fetch and is suspended on it
Task(kind, button) ==
    [kind |-> kind, button |-> button, pc |-> "fetch", reply |-> NoReplyYet,
     shown |-> Nothing]

\* the heading of the handler's catch block
FailedHeading(kind) ==
    IF script = "first"
    THEN (IF kind = "insert" THEN "Insert failed: " ELSE "Query failed: ")
    ELSE IF kind = "insert" THEN LANG_EN.error_insertFailed ELSE LANG_EN.error_queryFailed

\* the user types into the SQL box
TypeSql(text) ==
    /\ sqlBox' = text
    /\ UNCHANGED <<svars, gvars, script, buttons, modal, tasks, fetched>>

\* a click on Insert (a disabled button dispatches no click event):
\* _handleInsert runs up to the fetch of ApiService.insertRows; the first
\* script's listener goes to its fetch without touching the button
ClickInsert ==
    /\ ~buttons["insertBtn"].disabled
    /\ Len(tasks) < MaxClicks
    /\ buttons' = IF script = "first" THEN buttons
                  ELSE [buttons EXCEPT !["insertBtn"] = setLoading("insertBtn", TRUE)]
    /\ fetched' = Append(fetched, [method |-> "POST", base |-> CONFIG.API_BASE,
                                   path |-> CONFIG.ENDPOINT_INSERT, tail |-> <<>>])
    /\ tasks' = Append(tasks, Task("insert", "insertBtn"))
    /\ UNCHANGED <<svars, gvars, script, sqlBox, modal>>

\* a click on Submit Query: _handleQuery stops at an empty box with a
\* message (the first script's listener just returns), or runs up to the
\* fetch of ApiService.runQuery
ClickSubmit ==
    /\ ~buttons["submitBtn"].disabled
    /\ IF trim(sqlBox) = <<>>
       THEN /\ IF script = "first" THEN modal' = modal
               ELSE open(ShowText(LANG_EN.error_emptyQuery))
            /\ UNCHANGED <<buttons, tasks, fetched>>
       ELSE /\ Len(tasks) < MaxClicks
            /\ buttons' = IF script = "first" THEN buttons
                          ELSE [buttons EXCEPT !["submitBtn"] =
                                   setLoading("submitBtn", TRUE)]
            /\ fetched' = Append(fetched,
                                 [method |-> "GET", base |-> CONFIG.API_BASE,
                                  path |-> CONFIG.ENDPOINT_SQL,
                                  tail |-> encodeURIComponent(trim(sqlBox))])
            /\ tasks' = Append(tasks, Task("query", "submitBtn"))
            /\ modal' = modal
    /\ UNCHANGED <<svars, gvars, script, sqlBox>>

\* a handler that re-enables its button at the end of try instead of in finally
SettledNoFinally(k, content) ==
    /\ open(content)
    /\ buttons' = IF content.kind = "data"
                  THEN [buttons EXCEPT ![tasks[k].button] = setLoading(tasks[k].button, FALSE)]
                  ELSE buttons
    /\ tasks' = [tasks EXCEPT ![k].pc = "done", ![k].shown = content]
    /\ UNCHANGED <<svars, gvars, script, sqlBox, fetched>>

\* the handler of task k leaves its try / catch with `content` for the
\* modal; finally re-enables its button (the first script has no finally)
Settled(k, content) ==
    /\ open(content)
    /\ buttons' = IF script = "first" THEN buttons
                  ELSE [buttons EXCEPT ![tasks[k].button] =
                           setLoading(tasks[k].button, FALSE)]
    /\ tasks' = [tasks EXCEPT ![k].pc = "done", ![k].shown = content]
    /\ UNCHANGED <<svars, gvars, script, sqlBox, fetched>>

\* fetch resolves with a response; _parseResponse awaits response.json()
FetchResolve(k, reply) ==
    /\ tasks[k].pc = "fetch"
    /\ tasks' = [tasks EXCEPT ![k].pc = "json", ![k].reply = reply]
    /\ UNCHANGED <<svars, gvars, script, buttons, sqlBox, modal, fetched>>

\* fetch rejects: the network failed
FetchReject(k) ==
    /\ tasks[k].pc = "fetch"
    /\ Settled(k, ShowFailure(FailedHeading(tasks[k].kind), FetchErr))

\* a _parseResponse that returns the parsed body whatever the status
JsonResolveAnyStatus(k) ==
    /\ tasks[k].pc = "json"
    /\ tasks[k].reply.json
    /\ Settled(k, ShowData(tasks[k].reply.data))

\* response.json() resolves: _parseResponse throws unless response.ok
\* (the first script shows the parsed body whatever the status)
JsonResolve(k) ==
    /\ tasks[k].pc = "json"
    /\ tasks[k].reply.json
    /\ IF script = "first" \/ tasks[k].reply.status \in 200..299
       THEN Settled(k, ShowData(tasks[k].reply.data))
       ELSE Settled(k, ShowFailure(FailedHeading(tasks[k].kind),
                                   ErrorMessage(tasks[k].reply)))

\* response.json() rejects: the body is not JSON
JsonReject(k) ==
    /\ tasks[k].pc = "json"
    /\ ~tasks[k].reply.json
    /\ Settled(k, ShowFailure(FailedHeading(tasks[k].kind), JsonErr))

\* a click on the close button
CloseClick ==
    /\ close
    /\ UNCHANGED <<svars, gvars, script, buttons, sqlBox, tasks, fetched>>

\* a click inside the backdrop: on the backdrop itself or on the card
BackdropClick(target) ==
    /\ IF target = "backdrop" THEN close ELSE modal' = modal
    /\ UNCHANGED <<svars, gvars, script, buttons, sqlBox, tasks, fetched>>

\* a key goes down anywhere on the page
KeyDown(key) ==
    /\ IF key = "Escape" THEN close ELSE modal' = modal
    /\ UNCHANGED <<svars, gvars, script, buttons, sqlBox, tasks, fetched>>

PageInit ==
    /\ \E s \in Scripts : Start(s)
    /\ impl = "Router"
    /\ allowed = "*"

PageNext ==
    \/ \E text \in SqlBoxTexts : TypeSql(text)
    \/ ClickInsert
    \/ ClickSubmit
    \/ \E k \in 1..Len(tasks) :
          \/ \E reply \in FetchReplies : FetchResolve(k, reply)
          \/ FetchReject(k)
          \/ JsonResolve(k)
          \/ JsonReject(k)
    \/ CloseClick
    \/ \E target \in {"backdrop", "card"} : BackdropClick(target)
    \/ \E key \in {"Escape", "Enter"} : KeyDown(key)

PageSpec == PageInit /\ [][PageNext]_vars

---------------------------------------------------------------------------
(* The vocabulary of the properties *)

\* the request is GET /api/v1/sql/<tail>
IsQueryRequest(q) ==
    q.urlOk /\ q.method = "GET" /\ startsWith(q.pathname, SqlPrefix)

\* the request is POST /insert
IsSeedRequest(q) ==
    q.urlOk /\ q.method = "POST" /\ q.pathname = "/insert"

\* the tail of every request of the model, percent-decoded once
OnceDecoded ==
    [q \in Requests |-> decodeURIComponent(S(Drop(q.pathname, Len(SqlPrefix))))]

\* the credentials connection c was opened with
ProfileOf(c) == [user |-> c.user, password |-> c.password]

\* the guard ran on r's text and said no
Rejected(r) == guarded[r].ran /\ ~guarded[r].verdict

\* the guard ran on r's text and said yes
Admitted(r) == guarded[r].ran /\ guarded[r].verdict

\* r was answered once, with this status and a JSON object
AnsweredJson(r, status) ==
    /\ Len(sent[r]) = 1
    /\ sent[r][1].status = status
    /\ sent[r][1].ctype = "application/json"
    /\ sent[r][1].kind = "object"

\* r was answered once with {ok:false, error} and this status
AnsweredError(r, status) ==
    /\ AnsweredJson(r, status)
    /\ DOMAIN sent[r][1].body = {"ok", "error"}
    /\ sent[r][1].body.ok = FALSE

---------------------------------------------------------------------------
(* C1 *)

\* C1: every connection opened for GET /api/v1/sql/<tail> carries the READER
\* credentials and every connection opened for POST /insert the WRITER
\* credentials, and neither kind of request ever holds the other kind's
\* profile.  (The first script of server.js has one profile by design and is
\* left out.)
C1_CredentialIsolation ==
    impl # "legacy1" =>
        \A r \in Reqs : \A k \in 1..Len(conns[r]) :
            /\ IsQueryRequest(req[r]) =>
                  /\ ProfileOf(conns[r][k]) = ReaderProfile(impl)
                  /\ ProfileOf(conns[r][k]) # WriterProfile(impl)
            /\ IsSeedRequest(req[r]) =>
                  /\ ProfileOf(conns[r][k]) = WriterProfile(impl)
                  /\ ProfileOf(conns[r][k]) # ReaderProfile(impl)

---------------------------------------------------------------------------
(* C2 *)

\* the fifteen deny-listed substrings, as the claim lists them
DenyList ==
    { S("insert"), S("update"), S("delete"), S("drop"), S("create"), S("alter"),
      S("truncate"), S("replace"), S("grant"), S("revoke"), S("set "), S("call"),
      S("exec"), S("execute"), S("prepare") }

\* s without its leading and trailing whitespace, by positions
Trimmed(s) ==
    LET inked == {i \in 1..Len(s) : ~IsWhiteSpace(s[i])}
    IN  IF inked = {} THEN <<>>
        ELSE SubSeq(s, CHOOSE i \in inked : \A j \in inked : i <= j,
                       CHOOSE i \in inked : \A j \in inked : i >= j)

\* part occurs somewhere in s
Occurs(part, s) ==
    \E i \in 1..(Len(s) - Len(part) + 1) :
        \A k \in 1..Len(part) : s[i + k - 1] = part[k]

\* trim(lowercase(s)) starts with 'select' and holds no deny-listed substring
ReadOnlyByDefinition(s) ==
    /\ Len(Trimmed(toLowerCase(s))) >= 6
    /\ \A k \in 1..6 : Trimmed(toLowerCase(s))[k] = <<115, 101, 108, 101, 99, 116>>[k]
    /\ \A w \in DenyList : ~Occurs(w, Trimmed(toLowerCase(s)))

\* C2: for every text the guard is applied to, isSelectOnly returns true if
\* and only if trim(lowercase(text)) starts with 'select' and contains none
\* of the fifteen deny-listed substrings.
C2_GuardIff ==
    gOut.selectOnly = ReadOnlyByDefinition(gIn)

\* an admitted text that needed both the trim and the lower-casing
C2_AdmittedAfterNormalising ==
    /\ gPieces = 2
    /\ gOut.selectOnly
    /\ IsWhiteSpace(gIn[Len(gIn)])
    /\ gIn # toLowerCase(gIn)

---------------------------------------------------------------------------
(* C3 *)

\* C3: every SQL text executed for a GET /api/v1/sql/<tail> request is
\* exactly the once-percent-decoded tail, and it is the text the guard
\* examined and admitted.
C3_ExecutesDecodedTail ==
    \A r \in Reqs :
        IsQueryRequest(req[r]) =>
            \A k \in 1..Len(stmts[r]) :
                /\ OnceDecoded[req[r]].ok
                /\ stmts[r][k].text = OnceDecoded[req[r]].value
                /\ guarded[r] = Guarded(stmts[r][k].text, TRUE)

---------------------------------------------------------------------------
(* C4 *)

\* a step after which r stands rejected
RejectionLeaves(r) ==
    /\ pc'[r] = "done"
    /\ AnsweredError(r, 403)'
    /\ escaped'[r] = "none"
    /\ conns'[r] = <<>>
    /\ stmts'[r] = <<>>
    /\ ~Rejected(r) => table' = table

\* C4: when the guard rejects the decoded tail, the request ends there with
\* a single 403 {ok:false, error}; it has opened no connection and sent no
\* statement, and the step that rejects it leaves the table as it was.
C4_RejectedIs403 ==
    [][(impl \in Modern => (\A r \in Reqs : Rejected(r)' => RejectionLeaves(r)))]_vars

\* DELETE FROM patient was rejected while the table held the four seed rows
C4_DeleteRejected ==
    /\ impl \in Modern
    /\ Len(table.rows) = 4
    /\ \E r \in Reqs :
          /\ req[r].pathname = SqlPrefix \o "DELETE%20FROM%20patient"
          /\ Rejected(r)
          /\ AnsweredError(r, 403)

---------------------------------------------------------------------------
(* C5 *)

---------------------------------------------------------------------------
(* C6 *)

\* C6: no exception leaves the handler of Router or of server2/server.js:
\* whatever was thrown while handling a request was caught and answered.
C6_NothingEscapes ==
    impl \in Modern => \A r \in Reqs : escaped[r] = "none"

---------------------------------------------------------------------------
(* C7 *)

\* the reply of the database to r's query
QueryReply(r) == stmts[r][1].reply

\* r was answered once with 200 {ok:true, rows}
AnsweredRows(r, rows) ==
    /\ AnsweredJson(r, 200)
    /\ sent[r][1].body = [ok |-> TRUE, rows |-> rows]

\* r was answered once with 500 {ok:false, error: msg}
AnsweredFailure(r, msg) ==
    /\ AnsweredJson(r, 500)
    /\ sent[r][1].body = [ok |-> FALSE, error |-> msg]

\* C7 as claimed: an admitted query whose connection opened and whose
\* statement executed is answered 200 {ok:true, rows} with the rows the
\* database returned; one whose connection or statement failed is answered
\* 500 {ok:false, error} with that failure's message.
C7_AnswerFollowsQuery ==
    impl = "Router" =>
        \A r \in Reqs :
            (pc[r] = "done" /\ Admitted(r)) =>
                IF conns[r] = <<>> THEN AnsweredFailure(r, ConnectErr)
                ELSE IF QueryReply(r).tag = "rows"
                THEN AnsweredRows(r, QueryReply(r).rows)
                ELSE AnsweredFailure(r, QueryReply(r).msg)

\* C7 amended: the answer is 200 {ok:true, rows} with the rows the database
\* returned when the connection opened, the statement executed and the
\* connection closed; it is 500 {ok:false, error} when opening, executing
\* or closing failed, with the message of the last of these failures.
C7_AnswerFollowsQueryAndClose ==
    impl = "Router" =>
        \A r \in Reqs :
            (pc[r] = "done" /\ Admitted(r)) =>
                IF conns[r] = <<>> THEN AnsweredFailure(r, ConnectErr)
                ELSE IF conns[r][1].end = "error" THEN AnsweredFailure(r, EndErr)
                ELSE IF QueryReply(r).tag = "rows"
                THEN AnsweredRows(r, QueryReply(r).rows)
                ELSE AnsweredFailure(r, QueryReply(r).msg)

\* a query answered with the four rows the table held
C7_FourRowsReturned ==
    /\ impl = "Router"
    /\ \E r \in Reqs :
          /\ pc[r] = "done"
          /\ Admitted(r)
          /\ Len(table.rows) = 4
          /\ AnsweredRows(r, table.rows)

---------------------------------------------------------------------------
(* C8 *)

\* r's connect, schema statement or insert failed
SeedFailed(r) ==
    \/ conns[r] = <<>>
    \/ \E k \in 1..Len(stmts[r]) : stmts[r][k].reply.tag = "throw"

\* r's connect, schema statement, insert and close all succeeded
SeedSucceeded(r) ==
    /\ ~SeedFailed(r)
    /\ conns[r][1].end = "ok"

\* the count the engine reported for r's insert
EngineCount(r) == stmts[r][2].reply.count

\* r was answered once with 200 and a JSON object that has ok = true and
\* the number n under `key`
AnsweredCount(r, key, n) ==
    /\ AnsweredJson(r, 200)
    /\ {"ok", key} \subseteq DOMAIN sent[r][1].body
    /\ sent[r][1].body.ok = TRUE
    /\ sent[r][1].body[key] = n

CountKey == IF impl = "Router" THEN "affectedRows" ELSE "insertedRows"

---------------------------------------------------------------------------
(* C9 *)

\* C9: every number a successful POST /insert response states -- its count
\* field and any number in its message -- is the affected-row count the
\* engine returned for that insert.
C9_ReportsEngineCount ==
    impl \in Modern =>
        \A r \in Reqs :
            (IsSeedRequest(req[r]) /\ sent[r] # <<>> /\ sent[r][1].status = 200) =>
                /\ sent[r][1].body[CountKey] = EngineCount(r)
                /\ \A k \in 1..Len(sent[r][1].body.message) :
                      sent[r][1].body.message[k].t = "num" =>
                          sent[r][1].body.message[k].n = EngineCount(r)

---------------------------------------------------------------------------
(* C10 *)

\* the requests whose bulk insert the engine has executed
Seeded == {r \in Reqs : Len(stmts[r]) = 2 /\ stmts[r][2].reply.tag = "count"}

\* the four fixed rows, as the claim's sources give them
FixedNames == << "Sara Brown", "John Smith", "Jack Ma", "Elon Musk" >>
FixedDates == << "1901-01-01", "1941-01-01", "1961-01-30", "1999-01-01" >>

\* every POST /insert so far has been answered 200
AllSeedsSucceeded ==
    \A r \in Reqs :
        IsSeedRequest(req[r]) =>
            /\ pc[r] = "done"
            /\ sent[r] # <<>>
            /\ sent[r][1].status = 200

\* C10: starting from the absent table, the table holds the four fixed seed
\* rows once for every insert executed, in order; so after n POST /insert
\* requests that each succeeded it holds exactly 4n rows, and the
\* create-if-absent step has removed none.
C10_SeedingAdditive ==
    impl \in Modern =>
        /\ Len(table.rows) = 4 * Cardinality(Seeded)
        /\ \A j \in 1..Len(table.rows) :
              /\ table.rows[j].name = FixedNames[((j - 1) % 4) + 1]
              /\ table.rows[j].dateOfBirth = FixedDates[((j - 1) % 4) + 1]
        /\ AllSeedsSucceeded =>
              Len(table.rows) = 4 * Cardinality({r \in Reqs : IsSeedRequest(req[r])})

\* two POST /insert requests succeeded and the table holds eight rows
C10_TwoSeedsEightRows ==
    /\ impl \in Modern
    /\ AllSeedsSucceeded
    /\ Cardinality({r \in Reqs : IsSeedRequest(req[r])}) = 2
    /\ Len(table.rows) = 8

---------------------------------------------------------------------------
(* C11 *)

\* a parsed, non-OPTIONS request that is none of GET /, POST /insert and
\* GET /api/v1/sql/<tail>
MatchesNoRoute(q) ==
    /\ q.urlOk
    /\ q.method \in {"GET", "POST"}
    /\ ~(q.method = "GET" /\ q.pathname = "/")
    /\ ~IsSeedRequest(q)
    /\ ~IsQueryRequest(q)

\* C11: every non-OPTIONS request that matches no route is answered 404
\* with a JSON body {ok:false, error} and opens no database connection.
\* (The first script of server.js answers nothing at all on such a request
\* and is left out.)
C11_UnroutedIs404 ==
    impl # "legacy1" =>
        \A r \in Reqs :
            (pc[r] # "new" /\ MatchesNoRoute(req[r])) =>
                /\ AnsweredError(r, 404)
                /\ conns[r] = <<>>

---------------------------------------------------------------------------
(* C12 *)

\* the response carries the three CORS headers of a preflight answer
HasPreflightHeaders(resp) ==
    /\ resp.cors.acao # "-"
    /\ resp.cors.methods # "-"
    /\ resp.cors.headers # "-"

\* C12: an OPTIONS request, whatever its path and whatever else is in
\* flight, is answered once, 204 with an empty body and the headers
\* Access-Control-Allow-Origin, -Methods and -Headers; the guard never runs
\* for it and it opens no connection.
C12_PreflightIs204 ==
    impl \in Modern =>
        \A r \in Reqs :
            req[r].method = "OPTIONS" =>
                /\ pc[r] = "done"
                /\ Len(sent[r]) = 1
                /\ sent[r][1].status = 204
                /\ sent[r][1].kind = "empty"
                /\ HasPreflightHeaders(sent[r][1])
                /\ escaped[r] = "none"
                /\ ~guarded[r].ran
                /\ conns[r] = <<>>
                /\ stmts[r] = <<>>

\* a preflight answered while an earlier request holds an open connection
C12_PreflightDuringInsert ==
    /\ impl \in Modern
    /\ \E r, s \in Reqs :
          /\ req[r].method = "OPTIONS"
          /\ req[r].pathname = "/anything"
          /\ sent[r] # <<>>
          /\ sent[r][1].status = 204
          /\ pc[s] = "insert"
          /\ conns[s] # <<>>
          /\ conns[s][1].state = "open"

---------------------------------------------------------------------------
(* C13 *)

\* the four CORS headers with the values the claim names
FullCors(h) ==
    /\ h.acao # "-"
    /\ h.vary = "Origin"
    /\ h.methods = "GET,POST,OPTIONS"
    /\ h.headers = "Content-Type"

\* C13: from the moment a request is taken up -- before it is classified,
\* guarded or taken to the database -- its response holds the four CORS
\* headers, and every response written, of any status, carries them.
C13_CorsOnEveryResponse ==
    impl \in {"Router", "server2", "legacy1"} =>
        \A r \in Reqs :
            /\ pc[r] # "new" => FullCors(hdr[r])
            /\ \A k \in 1..Len(sent[r]) : FullCors(sent[r][k].cors)

---------------------------------------------------------------------------
(* C14 *)

\* C14: the Access-Control-Allow-Origin of every response is '*' or the
\* request's own Origin, the latter only when that Origin equals the
\* configured allowed origin.
C14_OriginWildcardOrReflected ==
    impl \in Modern =>
        \A r \in Reqs : \A k \in 1..Len(sent[r]) :
            \/ sent[r][k].cors.acao = "*"
            \/ /\ req[r].origin # NoOrigin
               /\ req[r].origin = allowed
               /\ sent[r][k].cors.acao = req[r].origin

---------------------------------------------------------------------------
(* C15 *)

\* a JSON object with a boolean ok that is true exactly on 200
JsonWithOk(resp) ==
    /\ resp.ctype = "application/json"
    /\ resp.kind = "object"
    /\ resp.status \in {200, 403, 404, 500}
    /\ "ok" \in DOMAIN resp.body
    /\ resp.body.ok = (resp.status = 200)

\* C15: every response written is a JSON object with a boolean ok (true on
\* 200, false on 403, 404 and 500), except the empty 204 given to OPTIONS
\* and the 200 text/plain given to GET /.
C15_EveryBodyHasOk ==
    impl # "legacy1" =>
        \A r \in Reqs : \A k \in 1..Len(sent[r]) :
            \/ JsonWithOk(sent[r][k])
            \/ /\ req[r].method = "OPTIONS"
               /\ sent[r][k].status = 204
               /\ sent[r][k].kind = "empty"
            \/ /\ req[r].method = "GET"
               /\ req[r].pathname = "/"
               /\ sent[r][k].status = 200
               /\ sent[r][k].ctype = "text/plain"

---------------------------------------------------------------------------
(* C16 *)

\* the texts of the documented examples
ExampleAdmitted == S("SELECT * FROM patient")
ExampleWithDrop == S("select * from patient; drop table patient")
ExampleUpdates == S("select name from updates")

\* part occurs in s with a character other than whitespace on either side
Embedded(part, s) ==
    \E i \in 2..(Len(s) - Len(part)) :
        /\ \A k \in 1..Len(part) : s[i + k - 1] = part[k]
        /\ ~IsWhiteSpace(s[i - 1])
        /\ ~IsWhiteSpace(s[i + Len(part)])

\* C16: the guard rejects '', admits 'SELECT * FROM patient', rejects
\* 'select * from patient; drop table patient' and rejects 'select name
\* from updates'; and it rejects every text in which a deny-listed keyword,
\* in any case, is embedded in other characters.
C16_GuardExamples ==
    gDefined =>
        /\ gIn = <<>> => ~gOut.selectOnly
        /\ gIn = ExampleAdmitted => gOut.selectOnly
        /\ gIn = ExampleWithDrop => ~gOut.selectOnly
        /\ gIn = ExampleUpdates => ~gOut.selectOnly
        /\ (\E w \in DenyList : Embedded(w, toLowerCase(gIn))) => ~gOut.selectOnly

\* 'select name from updates' was put to the guard and rejected
C16_UpdatesRejected ==
    /\ gDefined
    /\ gIn = ExampleUpdates
    /\ ~gOut.selectOnly
    /\ ~gOut.threw

---------------------------------------------------------------------------
(* C17 *)

\* C17: called with the empty text or with undefined, the guard returns
\* false and does not throw; GET /api/v1/sql/ with an empty tail is
\* answered 403 and opens no connection.
C17_GuardRejectsEmptyAndUndefined ==
    /\ ~gDefined => (~gOut.threw /\ ~gOut.selectOnly /\ ~gOut.querySafe)
    /\ (gDefined /\ gIn = <<>>) => (~gOut.threw /\ ~gOut.selectOnly /\ ~gOut.querySafe)
    /\ \A r \in Reqs :
          (req[r].method = "GET" /\ req[r].pathname = SqlPrefix) =>
              /\ AnsweredJson(r, 403)
              /\ conns[r] = <<>>

---------------------------------------------------------------------------
(* C18 *)

\* a field of the profiles has no value in the configuration
FieldMissing == \E n \in ProfileEnv(impl) : env[n] = Undefined

\* C18: a server whose configuration lacks a required field of the WRITER
\* or READER profile never comes to listen: it serves only with profiles
\* whose host, port, database, user and password were all configured.
C18_FailsFastOnMissingField ==
    phase = "listening" =>
        /\ ~FieldMissing
        /\ \A f \in DOMAIN WriteOptions(impl, env) :
              /\ WriteOptions(impl, env)[f] = "configured"
              /\ ReadOptions(impl, env)[f] = "configured"

---------------------------------------------------------------------------
(* C19 *)

\* the last statement r issued has failed
LastStatementFailed(r) ==
    /\ stmts[r] # <<>>
    /\ stmts[r][Len(stmts[r])].reply.tag = "throw"

\* a step in which nothing is tried again for r
NoRetryStep(r) ==
    /\ pc'[r] = "connect" => pc[r] \in {"new", "connect"}
    /\ Len(conns'[r]) <= 1
    /\ \A j, k \in 1..Len(stmts'[r]) :
          stmts'[r][j].kind = stmts'[r][k].kind => j = k
    /\ LastStatementFailed(r) =>
          /\ stmts'[r] = stmts[r]
          /\ Len(conns'[r]) = Len(conns[r])
          /\ pc'[r] \in {"end", "done", "killed"}
    /\ (pc[r] \in {"connect", "end"} /\ pc'[r] = "done"
            /\ (conns'[r] = <<>> \/ LastStatementFailed(r))) =>
          AnsweredError(r, 500)'
    /\ pc[r] = "done" =>
          /\ pc'[r] = "done"
          /\ conns'[r] = conns[r]
          /\ stmts'[r] = stmts[r]
          /\ sent'[r] = sent[r]

\* C19: for each request the connection is attempted once and each
\* statement -- create-if-absent, insert, query -- is issued at most once;
\* after a failure nothing more is attempted and the request ends with its
\* error response.
C19_NothingRetried ==
    [][(impl \in Modern => (\A r \in Reqs : NoRetryStep(r)))]_vars

\* a request whose insert failed: one connection, one insert, a 500
C19_FailedInsertNotRepeated ==
    /\ impl \in Modern
    /\ \E r \in Reqs :
          /\ pc[r] = "done"
          /\ Len(conns[r]) = 1
          /\ Len(stmts[r]) = 2
          /\ stmts[r][2].kind = "insert"
          /\ LastStatementFailed(r)
          /\ AnsweredError(r, 500)

---------------------------------------------------------------------------
(* C20 *)

\* r and s are the same request and the database answered both alike
SameRequestSameAnswers(r, s) ==
    /\ pc[r] = "done"
    /\ pc[s] = "done"
    /\ req[r] = req[s]
    /\ conns[r] = conns[s]
    /\ stmts[r] = stmts[s]

\* C20: requests are independent under interleaving: whatever the other
\* requests do, the server goes on accepting requests, an accepted request
\* is never cut off before its terminal response, and the responses a
\* request receives depend only on the request and on the database's
\* answers to it.
C20_RequestsIndependent ==
    impl = "Router" =>
        /\ phase = "listening"
        /\ \A r \in Reqs : pc[r] # "killed"
        /\ \A r, s \in Reqs :
              SameRequestSameAnswers(r, s) =>
                  /\ sent[r] = sent[s]
                  /\ escaped[r] = escaped[s]

\* while the process lives, the same request with the same database
\* answers gets the same responses
C20_SameAnswersSameResponse ==
    impl \in Modern =>
        \A r, s \in Reqs :
            SameRequestSameAnswers(r, s) =>
                /\ sent[r] = sent[s]
                /\ escaped[r] = escaped[s]

\* a request still suspended on the database when another request's
\* rejection ended the process
C20_KilledByAnotherRequest ==
    /\ impl = "Router"
    /\ \E r, s \in Reqs :
          /\ r # s
          /\ pc[r] = "killed"
          /\ escaped[r] = "none"
          /\ sent[r] = <<>>
          /\ escaped[s] # "none"

---------------------------------------------------------------------------
(* C21 *)

\* the connections of r that are open
OpenConnections(r) == {k \in 1..Len(conns[r]) : conns[r][k].state = "open"}

\* r has been accepted and its handler has not finished
InFlight(r) == pc[r] \in {"connect", "ddl", "insert", "query", "end"}

\* every statement of r went out on the one connection r opened
OnOwnConnection(r) ==
    \A k \in 1..Len(stmts[r]) :
        /\ Len(conns[r]) = 1
        /\ stmts[r][k].user = conns[r][1].user

C21_ModernOneConnection ==
    (impl \in Modern /\ phase = "listening") =>
        \A r \in Reqs :
            /\ Cardinality(OpenConnections(r)) <= (IF InFlight(r) THEN 1 ELSE 0)
            /\ OnOwnConnection(r)

---------------------------------------------------------------------------
(* C22 *)

\* C22: after any sequence of requests, successful or failing, the writer
\* profile, the reader profile, the deny-list and the seed rows are the
\* values constructed at process start, and the seed sequence still has its
\* four rows in the original order.
C22_SharedValuesNeverChange ==
    impl \in Modern =>
        /\ frozen = Constructed(impl, env)
        /\ frozen.writer = WriterProfile(impl)
        /\ frozen.reader = ReaderProfile(impl)
        /\ frozen.blocked = BLOCKED_SQL_KEYWORDS
        /\ Len(frozen.seed) = 4
        /\ frozen.seed = SEED_ROWS(impl)

\* one insert has succeeded and another has failed, both finished
C22_AfterSuccessAndFailure ==
    /\ impl \in Modern
    /\ \E r, s \in Reqs :
          /\ pc[r] = "done" /\ pc[s] = "done"
          /\ SeedSucceeded(r)
          /\ SeedFailed(s)
          /\ Len(table.rows) >= 4

---------------------------------------------------------------------------
(* C23 *)

\* the kinds of the statements r has sent, in order
StatementKinds(r) == [k \in 1..Len(stmts[r]) |-> stmts[r][k].kind]

\* r's statements that have no reply yet
PendingStatements(r) == {k \in 1..Len(stmts[r]) : stmts[r][k].reply.tag = "none"}

\* the steps of one POST /insert so far are in the prescribed order
InsertStepsInOrder(r) ==
    /\ StatementKinds(r) \in {<<>>, <<"ddl">>, <<"ddl", "insert">>}
    /\ pc[r] = "connect" => (conns[r] = <<>> /\ stmts[r] = <<>>)
    /\ stmts[r] # <<>> =>
          /\ Len(conns[r]) = 1
          /\ ProfileOf(conns[r][1]) = WriterProfile(impl)
          /\ \A k \in 1..Len(stmts[r]) : stmts[r][k].user = conns[r][1].user
    /\ Len(stmts[r]) = 2 => stmts[r][1].reply.tag = "count"
    /\ PendingStatements(r) # {} =>
          /\ PendingStatements(r) = {Len(stmts[r])}
          /\ conns[r][1].state = "open"
    /\ pc[r] = "done" => \A k \in 1..Len(conns[r]) : conns[r][k].state = "closed"

\* C23: within one POST /insert the writer connection is opened first, then
\* create-table-if-absent is sent, then one insert statement, then the
\* connection is closed; both statements go out on that one connection
\* while it is open, the insert is sent only after the create step
\* succeeded, and each completed insert accounts for exactly four rows.
C23_InsertStepsOrdered ==
    impl \in Modern =>
        /\ \A r \in Reqs : IsSeedRequest(req[r]) => InsertStepsInOrder(r)
        /\ Len(table.rows) = 4 * Cardinality(Seeded)

\* one insert ran through all four steps and another stopped at a failed
\* create step
C23_FullRunAndFailedCreate ==
    /\ impl \in Modern
    /\ \E r, s \in Reqs :
          /\ pc[r] = "done" /\ pc[s] = "done"
          /\ StatementKinds(r) = <<"ddl", "insert">>
          /\ stmts[r][2].reply.tag = "count"
          /\ conns[r][1].state = "closed"
          /\ StatementKinds(s) = <<"ddl">>
          /\ stmts[s][1].reply.tag = "throw"
          /\ conns[s][1].state = "closed"

---------------------------------------------------------------------------
(* C24 *)

\* the database answers the round-trip r is waiting for, one way or the other
RoundTrip(r) ==
    \/ ConnectOk(r)
    \/ ConnectFail(r)
    \/ DdlOk(r)
    \/ DdlFail(r)
    \/ \E n \in EngineCounts : InsertOk(r, n)
    \/ InsertFail(r)
    \/ \E rows \in QueryResults(loc[r].sql, table) : QueryOk(r, rows)
    \/ QueryFail(r)
    \/ EndOk(r)
    \/ EndFail(r)

\* the server under the proviso that every round-trip a request starts
\* eventually completes or fails
LiveSpec == Init /\ [][Next]_vars /\ \A r \in Reqs : WF_vars(RoundTrip(r))

\* C24: every request that has arrived eventually has a response, provided
\* each database round-trip it starts eventually completes or fails.
C24_EveryRequestAnswered ==
    impl \in Modern =>
        \A r \in Reqs : (pc[r] # "new") ~> (sent[r] # <<>>)

\* when every request target parses, Router answers every request
C24_AnsweredWhenUrlParses ==
    (impl = "Router" /\ [](\A s \in Reqs : req[s].urlOk)) =>
        \A r \in Reqs : (pc[r] # "new") ~> (sent[r] # <<>>)

---------------------------------------------------------------------------
(* C25 *)

\* the handler of r called writeHead again after its response had gone out
SecondWriteAttempted(r) == escaped[r] = "ERR_HTTP_HEADERS_SENT"

C25_RouterWritesOnce ==
    impl = "Router" =>
        \A r \in Reqs :
            /\ Len(sent[r]) <= 1
            /\ ~SecondWriteAttempted(r)

---------------------------------------------------------------------------
(* C26 *)

\* C26: whenever POST /insert is answered with a 500 error, that request
\* added no rows: its insert statement did not succeed, so none of the
\* table's rows is its doing.
C26_ErrorMeansNothingAdded ==
    impl = "Router" =>
        \A r \in Reqs :
            (IsSeedRequest(req[r]) /\ AnsweredError(r, 500)) => r \notin Seeded

\* the other case to settle: the table is created and the insert fails --
\* the 500 then does come with no rows added
C26_FailedInsertAddsNothing ==
    impl = "Router" =>
        \A r \in Reqs :
            (IsSeedRequest(req[r]) /\ AnsweredError(r, 500)
                /\ \E k \in 1..Len(stmts[r]) : stmts[r][k].reply.tag = "throw")
            => r \notin Seeded

---------------------------------------------------------------------------
(* C27 *)

\* r is a query request whose tail is not valid percent-encoding
MalformedTail(r) ==
    /\ pc[r] # "new"
    /\ IsQueryRequest(req[r])
    /\ ~OnceDecoded[req[r]].ok

\* r was answered 500 {ok:false, error} with no guard run and no connection
MalformedAnswered(r) ==
    /\ AnsweredError(r, 500)
    /\ ~guarded[r].ran
    /\ conns[r] = <<>>
    /\ stmts[r] = <<>>

\* C27: a query request whose tail is not valid percent-encoding is
\* answered with a 500 JSON error {ok:false, error}; the guard is not run
\* on it and no connection is opened.
C27_MalformedTailIs500 ==
    impl \in {"Router", "legacy2"} =>
        \A r \in Reqs : MalformedTail(r) => MalformedAnswered(r)

\* Router decodes inside dispatch's try and answers the 500
C27_RouterMalformedTailIs500 ==
    impl = "Router" =>
        \A r \in Reqs : MalformedTail(r) => MalformedAnswered(r)

---------------------------------------------------------------------------
(* C28 *)

\* whitespace put before and after a text
Paddings == {<<>>, S(" "), <<9>>, <<160>>, <<32, 10>>}

\* the verdict on s is the same in upper case
SameInUpperCase(s) == isSelectOnly(toUpperCase(s)) = isSelectOnly(s)

\* the verdict on s is the same in lower case and within any whitespace
SameInLowerCaseAndPadded(s) ==
    /\ isSelectOnly(toLowerCase(s)) = isSelectOnly(s)
    /\ \A w1, w2 \in Paddings : isSelectOnly(w1 \o s \o w2) = isSelectOnly(s)

IsAscii(s) == \A k \in 1..Len(s) : s[k] < 128

\* C28 as stated: the guard's verdict is invariant under case and
\* surrounding whitespace -- for every text s the verdict on s, on s in
\* upper case, on s in lower case and on s within any leading and trailing
\* whitespace is the same.
C28_VerdictInvariant ==
    gDefined =>
        /\ gOut.selectOnly = isSelectOnly(gIn)
        /\ SameInUpperCase(gIn)
        /\ SameInLowerCaseAndPadded(gIn)

\* C28 amended: for every text the verdict is the same in lower case and
\* within any leading and trailing whitespace (so with and without a
\* trailing space after 'set'); it is the same in upper case for every
\* ASCII text.
C28_VerdictInvariantAscii ==
    gDefined =>
        /\ gOut.selectOnly = isSelectOnly(gIn)
        /\ SameInLowerCaseAndPadded(gIn)
        /\ IsAscii(gIn) => SameInUpperCase(gIn)

\* a mixed-case text ending in 'set': admitted as it is, in upper case and
\* with a space after it
C28_SelectSetAdmitted ==
    /\ gDefined
    /\ gIn = S("Select set")
    /\ gOut.selectOnly
    /\ isSelectOnly(toUpperCase(gIn) \o S(" "))

---------------------------------------------------------------------------
(* C29 *)

\* the handlers started from button b that have not settled
InFlightFrom(b) == {k \in 1..Len(tasks) : tasks[k].button = b /\ tasks[k].pc # "done"}

\* C29: a button is disabled, with its loading label, exactly while a
\* request started from it is in flight, and enabled with its normal label
\* otherwise, whatever the outcome was; so at most one request per button
\* is in flight and no button stays disabled once all requests have
\* settled.
C29_DisabledWhileInFlight ==
    script = "AppController" => \A b \in DOMAIN buttons :
        /\ Cardinality(InFlightFrom(b)) <= 1
        /\ buttons[b].disabled = (InFlightFrom(b) # {})
        /\ buttons[b].textContent =
              (IF InFlightFrom(b) # {} THEN Dataset[b].loadingLabel ELSE Dataset[b].label)

\* one request has settled on a body that is not JSON and its button is
\* enabled again, while the other button waits, disabled, for its request
C29_ReenabledAfterBadBody ==
    script = "AppController" /\ \E j, k \in 1..Len(tasks) :
        /\ tasks[j].pc = "done"
        /\ tasks[j].reply.status # 0
        /\ ~tasks[j].reply.json
        /\ tasks[j].shown.kind = "failure"
        /\ ~buttons[tasks[j].button].disabled
        /\ tasks[k].pc = "json"
        /\ buttons[tasks[k].button].disabled

---------------------------------------------------------------------------
(* C30 *)

EmptyQueryShown == ShowText(LANG_EN.error_emptyQuery)

\* a request was handed to fetch in this step
Sent == Len(fetched') = Len(fetched) + 1

\* every settled request with a non-OK status was shown as a failure, with
\* the server's error field if the body has one, and only OK responses
\* were shown as results
FailuresShownAsFailures ==
    \A k \in 1..Len(tasks) :
        tasks[k].pc = "done" =>
            /\ (tasks[k].reply.status # 0 /\ tasks[k].reply.status \notin 200..299) =>
                  /\ tasks[k].shown.kind = "failure"
                  /\ tasks[k].shown.heading = FailedHeading(tasks[k].kind)
                  /\ (tasks[k].reply.json /\ "error" \in DOMAIN tasks[k].reply.data) =>
                        tasks[k].shown.body.message = tasks[k].reply.data.error
            /\ tasks[k].shown.kind = "data" =>
                  /\ tasks[k].reply.status \in 200..299
                  /\ tasks[k].shown.body = tasks[k].reply.data

\* a step of the page in keeping with C30
QueryStep ==
    /\ (ClickSubmit /\ trim(sqlBox) = <<>>) =>
          /\ fetched' = fetched
          /\ modal'.open
          /\ modal'.content = EmptyQueryShown
          /\ ~buttons'["submitBtn"].disabled
    /\ (Sent /\ fetched'[Len(fetched')].method = "GET") =>
          /\ trim(sqlBox) # <<>>
          /\ fetched'[Len(fetched')].tail = encodeURIComponent(trim(sqlBox))
          /\ decodeURIComponent(fetched'[Len(fetched')].tail).value = trim(sqlBox)
    /\ FailuresShownAsFailures'

\* C30: submitting an empty or whitespace-only SQL box sends no request,
\* opens the modal with the empty-query message and leaves Submit enabled;
\* a query request is sent only for non-empty trimmed text, which it
\* carries percent-encoded; a non-OK response is shown as a failure with
\* the server's error field and never as a result.
C30_EmptyBoxAndFailures ==
    [][(script = "AppController" => QueryStep)]_vars

\* the empty-query message is up after a query was refused with a 403 and
\* shown as a failure carrying the server's error
C30_EmptyAfterRefusedQuery ==
    /\ script = "AppController"
    /\ modal.open
    /\ modal.content = EmptyQueryShown
    /\ ~buttons["submitBtn"].disabled
    /\ \E k \in 1..Len(tasks) :
          /\ tasks[k].kind = "query"
          /\ tasks[k].pc = "done"
          /\ tasks[k].reply.status = 403
          /\ tasks[k].shown = ShowFailure(LANG_EN.error_queryFailed,
                                          "Only SELECT queries are permitted.")

---------------------------------------------------------------------------
(* C31 *)

\* the backdrop carries 'open' exactly when aria-hidden is 'false'
ModalConsistent == modal.open <=> (modal.ariaHidden = "false")

\* one of the three triggers that close the modal
CloseTrigger == CloseClick \/ BackdropClick("backdrop") \/ KeyDown("Escape")

\* a step of the page in keeping with C31
ModalStep ==
    /\ ModalConsistent
    /\ ModalConsistent'
    /\ CloseTrigger =>
          /\ ~modal'.open
          /\ modal'.ariaHidden = "true"
          /\ ~modal.open => modal' = modal
    /\ BackdropClick("card") => modal' = modal

\* C31: in both scripts of the page, whatever the sequence of opens,
\* close-button clicks, backdrop clicks, Escape presses and request
\* completions, the backdrop carries the 'open' class exactly when
\* aria-hidden is 'false'; every close trigger leaves the modal closed and
\* changes nothing if it was closed already; a click on the card inside the
\* backdrop leaves the modal as it is.
C31_ModalStateConsistent ==
    [][(ModalStep)]_vars

\* in the first script, a modal that a request's completion had opened is
\* closed again and still holds what that request showed
C31_ClosedAfterCompletion ==
    /\ script = "first"
    /\ ~modal.open
    /\ modal.ariaHidden = "true"
    /\ \E k \in 1..Len(tasks) :
          /\ tasks[k].pc = "done"
          /\ modal.content = tasks[k].shown

=============================================================================
